---- MODULE Spec2Model ----
(***************************************************************************)
(* Verification model of the aura terminal renderer                        *)
(* (packages/aura/rust/src): the renderer shell, its differential frame    *)
(* flusher, the hit grid and the writer-thread handshake.                  *)
(*                                                                         *)
(* Colours are RGBA tuples of fixed-point integers: ColorOne stands for    *)
(* the float 1.0, so one unit is 1e-6 and COLOR_EPSILON_DEFAULT (1e-5) is  *)
(* 10 units.  The output byte stream is a sequence of tokens, one per      *)
(* escape sequence, with the UTF-8 payload kept as single bytes.           *)
(***************************************************************************)
EXTENDS Integers, Sequences, FiniteSets, TLC

VARIABLES
    \* ---- the run's inputs ----
    scenario,                \* grid size, screen mode and the cells the host draws with
    \* ---- renderer shell (struct CliRenderer) ----
    width, height,
    use_alternate_screen,
    current_render_buffer,   \* grid: [0..w*h-1 -> Cell]
    next_render_buffer,
    background_color,
    has_rendered_once,
    lines_rendered,
    previous_lines_rendered,
    inline_state,            \* [start_row, start_col, saved_fg, saved_bg, saved_attrs]
    cursor_visible,
    frame_count,             \* render_stats.frame_count
    output_buffer,           \* the active output buffer as prepared by the last frame
    active_buffer,           \* "A" or "B"
    current_hit_grid, next_hit_grid, hit_grid_width, hit_grid_height,
    \* ---- threading ----
    use_thread,
    render_thread,           \* TRUE while the renderer holds a JoinHandle
    render_requested, should_terminate, render_in_progress,   \* the AtomicBools
    render_request,          \* the request slot: None or Some(frame)
    mutex,                   \* owner of render_mutex: "free", "main" or "writer"
    m_pc, w_pc,              \* position of the main thread and of the writer thread
    m_notified, w_notified,  \* a notify_all reached the thread while it slept
    m_frame,                 \* the frame the render call in progress has prepared
    w_request,               \* the request the writer took from the slot
    stdout,                  \* what reached stdout: <<frame, part>>, frame 0 = restoration
    \* ---- observation of the calls made so far ----
    next_at_render,          \* `next` as it was when render was last called
    current_at_render,       \* `current` as it was when render was last called
    force_at_render,         \* the force argument of the last render call
    lines_at_render,         \* <<lines_rendered at the render before, at the last render>>
    terminal,                \* a terminal that showed `current`, after the last frame's bytes
    hits_issued_current,     \* ids of the rectangles issued between the last two renders
    hits_issued_next,        \* ids of the rectangles issued since the last render
    handed_over,             \* frames a threaded render has put into the request slot
    sync_rendered,           \* some render call wrote its frame synchronously
    flushes,                 \* what the flusher read and produced, one record per render call
                             \* of a run on a single cell
    \* ---- mouse toggles and the writes that bypass the frame buffers ----
    mouse_enabled, mouse_movement_enabled,
    stdout_direct,           \* tokens the last mouse toggle or shutdown wrote straight to stdout
    \* ---- text fragment buffers (struct TextBuffer), owned by the host ----
    text_buffers,            \* handle -> TextBuffer, or None for a free handle
    text_result,             \* what the last text buffer operation returned
    text_log,                \* handle -> what the host has done with the buffer since init
    \* ---- a cell grid (struct OptimizedBuffer) under the drawing operations ----
    buffer,                  \* [width, height, respect_alpha, cells]
    call                     \* the last drawing operation: its name, arguments and result

shellVars == <<scenario, width, height, use_alternate_screen, current_render_buffer,
               next_render_buffer, background_color, has_rendered_once, lines_rendered,
               previous_lines_rendered, inline_state, cursor_visible, frame_count,
               output_buffer, active_buffer>>
hitVars == <<current_hit_grid, next_hit_grid, hit_grid_width, hit_grid_height>>
threadVars == <<use_thread, render_thread, render_requested, should_terminate,
                render_in_progress, render_request, mutex, m_pc, w_pc, m_notified,
                w_notified, m_frame, w_request, stdout>>
seenVars == <<next_at_render, current_at_render, force_at_render, lines_at_render,
              terminal, hits_issued_current, hits_issued_next, handed_over, sync_rendered,
              flushes>>

mouseVars == <<mouse_enabled, mouse_movement_enabled, stdout_direct>>
textVars == <<text_buffers, text_result, text_log>>
drawVars == <<buffer, call>>
\* what an operation of the renderer leaves alone unless it is a mouse toggle or a shutdown
asideVars == <<mouseVars, textVars, drawVars>>
rendererVars == <<shellVars, hitVars, threadVars, seenVars, mouseVars>>

vars == <<shellVars, hitVars, threadVars, seenVars, mouseVars, textVars, drawVars>>

-----------------------------------------------------------------------------
(* Bounds of the model *)

MaxFrames == 2        \* render calls per behaviour
MaxSide == 2          \* greatest width and height a renderer is resized to
MaxLines == 2         \* largest argument of set_lines_rendered
MaxTextBuffers == 3      \* text buffers alive at once
MaxText == 3             \* cells a text buffer's cursor may reach
MaxFinalize == 2         \* finalize_line_info calls on one buffer
MaxDraws == 2            \* clear calls on one grid

-----------------------------------------------------------------------------
(* Constants of the program *)

CLEAR_CHAR == 2560                 \* 0x0a00
DEFAULT_SPACE_CHAR == 32
MAX_UNICODE_CODEPOINT == 1114111
BLOCK_CHAR == 9608
CELL_RESULT_SIZE == 48
I32_MAX == 2147483647
WIDE_CHAR_CONTINUATION == 65535    \* 0xFFFF
COLOR_EPSILON_DEFAULT == 10        \* 0.00001 in units of 1e-6
ColorOne == 1000000                \* the float 1.0 in units of 1e-6
render_offset == 0
DEFAULT_CURSOR_X == 1
DEFAULT_CURSOR_Y == 1

None == <<>>
Some(v) == <<v>>

WHITE == <<ColorOne, ColorOne, ColorOne, ColorOne>>
BLACK == <<0, 0, 0, ColorOne>>

Abs(n) == IF n < 0 THEN -n ELSE n

\* buffer::rgba_equal
rgba_equal(a, b, epsilon) ==
    /\ Abs(a[1] - b[1]) < epsilon
    /\ Abs(a[2] - b[2]) < epsilon
    /\ Abs(a[3] - b[3]) < epsilon
    /\ Abs(a[4] - b[4]) < epsilon

\* ((component * 255.0) + 0.5) as u8, with the two fast paths
rgba_component_to_u8(component) ==
    IF component <= 0 THEN 0
    ELSE IF component >= ColorOne THEN 255
    ELSE (component * 255 + (ColorOne \div 2)) \div ColorOne

rgba_to_ints(rgba) ==
    << rgba_component_to_u8(rgba[1]), rgba_component_to_u8(rgba[2]),
       rgba_component_to_u8(rgba[3]), rgba_component_to_u8(rgba[4]) >>

InRange(cp, lo, hi) == cp >= lo /\ cp <= hi

\* every printable code point takes one column
codepoint_display_width_narrow(cp) ==
    IF cp < 32 \/ cp = 127 THEN 0 ELSE 1

codepoint_display_width(cp) ==
    IF cp < 128
    THEN (IF cp = 0 \/ cp < 32 \/ cp = 127 THEN 0 ELSE 1)
    ELSE IF \/ InRange(cp, 768, 879)      \* 0x0300..=0x036F
            \/ InRange(cp, 6832, 6911)    \* 0x1AB0..=0x1AFF
            \/ InRange(cp, 7616, 7679)    \* 0x1DC0..=0x1DFF
            \/ InRange(cp, 8400, 8447)    \* 0x20D0..=0x20FF
            \/ InRange(cp, 65056, 65071)  \* 0xFE20..=0xFE2F
    THEN 0
    ELSE IF \/ InRange(cp, 4352, 4447)      \* 0x1100..=0x115F
            \/ cp = 9001 \/ cp = 9002       \* 0x2329 | 0x232A
            \/ InRange(cp, 11904, 42191)    \* 0x2E80..=0xA4CF
            \/ InRange(cp, 44032, 55203)    \* 0xAC00..=0xD7A3
            \/ InRange(cp, 63744, 64255)    \* 0xF900..=0xFAFF
            \/ InRange(cp, 65040, 65049)    \* 0xFE10..=0xFE19
            \/ InRange(cp, 65072, 65135)    \* 0xFE30..=0xFE6F
            \/ InRange(cp, 65280, 65376)    \* 0xFF00..=0xFF60
            \/ InRange(cp, 65504, 65510)    \* 0xFFE0..=0xFFE6
            \/ InRange(cp, 127744, 129791)  \* 0x1F300..=0x1FAFF
    THEN 2
    ELSE 1

-----------------------------------------------------------------------------
(* Output tokens: one per escape sequence, one per payload byte *)

Tok(k, a, b, c) == [a |-> a, b |-> b, c |-> c, k |-> k]

HIDE_CURSOR == Tok("hide_cursor", 0, 0, 0)       \* ESC [ ? 25 l
SHOW_CURSOR == Tok("show_cursor", 0, 0, 0)       \* ESC [ ? 25 h
RESET == Tok("sgr", 0, 0, 0)                     \* ESC [ 0 m
ERASE_LINE == Tok("erase_line", 0, 0, 0)         \* ESC [ K
ERASE_DOWN == Tok("erase_down", 0, 0, 0)         \* ESC [ J
CURSOR_BLOCK == Tok("cursor_style", 2, 0, 0)     \* ESC [ 2 SP q
DEFAULT_CURSOR_STYLE == Tok("cursor_style", 0, 0, 0)       \* ESC [ 0 SP q
RESET_CURSOR_COLOR == Tok("cursor_color_default", 0, 0, 0) \* ESC ] 12 ; default BEL
RESTORE_CURSOR_STATE == Tok("restore_cursor", 0, 0, 0)     \* ESC [ u
\* DEC private modes: ESC [ ? mode h sets, ESC [ ? mode l resets
PrivateMode(mode, set) == Tok("mode", mode, IF set THEN 1 ELSE 0, 0)
SWITCH_TO_MAIN_SCREEN == PrivateMode(1049, FALSE)
Byte(b) == Tok("byte", b, 0, 0)

\* char::from_u32 followed by char::encode_utf8: nothing for a non-scalar
Utf8Encode(cp) ==
    IF cp < 128 THEN << Byte(cp) >>
    ELSE IF cp < 2048 THEN << Byte(192 + (cp \div 64)), Byte(128 + (cp % 64)) >>
    ELSE IF InRange(cp, 55296, 57343) THEN << >>
    ELSE IF cp < 65536
    THEN << Byte(224 + (cp \div 4096)), Byte(128 + ((cp \div 64) % 64)),
            Byte(128 + (cp % 64)) >>
    ELSE IF cp <= 1114111
    THEN << Byte(240 + (cp \div 262144)), Byte(128 + ((cp \div 4096) % 64)),
            Byte(128 + ((cp \div 64) % 64)), Byte(128 + (cp % 64)) >>
    ELSE << >>

\* write!("\x1b[{};{}H", y, x)
write_move_to(x, y) == << Tok("move", y, x, 0) >>

write_fg_color(r, g, b) == << Tok("fg", r, g, b) >>
\* the colour bytes in the order blue, green, red
write_bg_color_bgr(r, g, b) == << Tok("bg", b, g, r) >>

write_bg_color(r, g, b) == << Tok("bg", r, g, b) >>
write_cursor_color(r, g, b) == << Tok("cursor_color", r, g, b) >>

HasBit(attributes, i) == (attributes \div (2 ^ i)) % 2 = 1

SgrCodeOfBit == << 1, 2, 3, 4, 5, 7, 8, 9 >>

RECURSIVE AttrTokens(_, _)
AttrTokens(attributes, i) ==
    IF i > 7 THEN << >>
    ELSE (IF HasBit(attributes, i) THEN << Tok("sgr", SgrCodeOfBit[i + 1], 0, 0) >> ELSE << >>)
         \o AttrTokens(attributes, i + 1)

\* TextAttributes::apply_attributes_output_writer
apply_attributes_output_writer(attributes) == AttrTokens(attributes, 0)

write_attributes(attributes) == apply_attributes_output_writer(attributes)

\* current_attributes as u8 (current_attributes is an i16 that starts at -1)
AsU8(n) == n % 256

write_move_to_inline(x, y, alt, istate, current_fg, current_bg, current_attrs) ==
    IF ~alt
    THEN LET abs_row == istate.start_row + y
             abs_col == IF x > 0 THEN x ELSE istate.start_col
         IN  << Tok("move", abs_row, abs_col, 0) >>
             \o (IF current_fg # None /\ istate.saved_fg # current_fg
                 THEN LET c == rgba_to_ints(current_fg[1]) IN write_fg_color(c[1], c[2], c[3])
                 ELSE << >>)
             \o (IF current_bg # None /\ istate.saved_bg # current_bg
                 THEN LET c == rgba_to_ints(current_bg[1]) IN write_bg_color(c[1], c[2], c[3])
                 ELSE << >>)
             \o (IF current_attrs # istate.saved_attrs /\ current_attrs # 0
                 THEN write_attributes(current_attrs)
                 ELSE << >>)
    ELSE write_move_to(x, y)

-----------------------------------------------------------------------------
(* Cell grids (OptimizedBuffer) *)

Cell(ch, fg, bg, attributes) == [attributes |-> attributes, bg |-> bg, char |-> ch, fg |-> fg]

\* OptimizedBuffer::clear
clear(w, h, bg, ch) == [i \in 0 .. (w * h - 1) |-> Cell(ch, WHITE, bg, 0)]

\* OptimizedBuffer::get: None outside the grid
get(buf, w, h, x, y) == IF x >= w \/ y >= h THEN None ELSE Some(buf[y * w + x])

\* set_cell that stores no attributes
set_cell_without_attributes(buf, w, h, x, y, ch, fg, bg, attributes) ==
    IF x >= w \/ y >= h THEN buf
    ELSE [buf EXCEPT ![y * w + x] = Cell(ch, fg, bg, 0)]

\* OptimizedBuffer::set_cell: a silent no-op outside the grid
set_cell(buf, w, h, x, y, ch, fg, bg, attributes) ==
    IF x >= w \/ y >= h THEN buf
    ELSE [buf EXCEPT ![y * w + x] = Cell(ch, fg, bg, attributes)]

-----------------------------------------------------------------------------
(* The differential flusher: CliRenderer::prepare_render_frame *)

\* The value of a one-element set; { F(v) : v \in {e} } computes e once, however
\* often F reads v
Only(S) == CHOOSE v \in S : TRUE

\* A renderer record `r` carries the fields the flusher reads:
\* width, height, alt, cur, nxt, istate, lines, prev_lines, once, cursor, bg.

\* The loop state of one frame
FlushInit(r) ==
    [ out |-> << HIDE_CURSOR >>,
      cur |-> r.cur,
      current_fg |-> None, current_bg |-> None, current_attributes |-> -1,
      run_buffer |-> << >>, run_start |-> None, run_start_visual_col |-> None,
      run_length |-> 0, current_visual_col |-> 0, cells_updated |-> 0 ]

\* Flush of a pending run: move to the run's column, payload, SGR reset
FlushRun(r, st, y) ==
    LET start_col == (IF st.run_start_visual_col = None THEN 0
                      ELSE st.run_start_visual_col[1]) + 1
    IN  [st EXCEPT !.out = @ \o write_move_to_inline(start_col, y + 1 + render_offset, r.alt,
                                    r.istate, st.current_fg, st.current_bg,
                                    AsU8(st.current_attributes))
                             \o st.run_buffer \o << RESET >>]

\* an equality test that never finds a cell unchanged
CellUnchanged_never(current, nxt) == FALSE

\* The equality test of the non-forced path
CellUnchanged(current, nxt) ==
    /\ current.char = nxt.char
    /\ current.attributes = nxt.attributes
    /\ rgba_equal(current.fg, nxt.fg, COLOR_EPSILON_DEFAULT)
    /\ rgba_equal(current.bg, nxt.bg, COLOR_EPSILON_DEFAULT)

AdvanceCol(st, ch) ==
    LET w == codepoint_display_width(ch)
    IN  [st EXCEPT !.current_visual_col = @ + (IF w = 0 THEN 1 ELSE w)]

\* Start of a new run at cell x: flush the previous one, move, set colours and attributes
StartRun(r, st, x, y, nxt) ==
    LET s0 == IF st.run_length > 0
              THEN [FlushRun(r, st, y) EXCEPT !.run_buffer = << >>]
              ELSE st
    IN  [s0 EXCEPT
          !.run_start = Some(x),
          !.run_start_visual_col = Some(st.current_visual_col),
          !.run_length = 0,
          !.current_fg = Some(nxt.fg),
          !.current_bg = Some(nxt.bg),
          !.current_attributes = nxt.attributes,
          !.out =
            @ \o write_move_to_inline(st.current_visual_col + 1, y + 1 + render_offset, r.alt,
                     r.istate, Some(nxt.fg), Some(nxt.bg), AsU8(nxt.attributes))
              \o write_fg_color(rgba_component_to_u8(nxt.fg[1]), rgba_component_to_u8(nxt.fg[2]),
                                rgba_component_to_u8(nxt.fg[3]))
              \o write_bg_color(rgba_component_to_u8(nxt.bg[1]), rgba_component_to_u8(nxt.bg[2]),
                                rgba_component_to_u8(nxt.bg[3]))
              \o (IF nxt.attributes # 0 THEN apply_attributes_output_writer(nxt.attributes)
                  ELSE << >>)]

\* The body of `for x in 0..self.width` for one cell
CellStep(r, st, x, y, force_render) ==
    LET current_cell == get(st.cur, r.width, r.height, x, y)
        next_cell == get(r.nxt, r.width, r.height, x, y)
    IN
    IF current_cell = None \/ next_cell = None THEN st
    ELSE
    LET current == current_cell[1]
        nxt == next_cell[1]
    IN
    IF ~force_render /\ CellUnchanged(current, nxt)
    THEN LET s0 == IF st.run_length > 0
                   THEN [FlushRun(r, st, y) EXCEPT !.run_start = None,
                                                   !.run_start_visual_col = None,
                                                   !.run_length = 0,
                                                   !.run_buffer = << >>]
                   ELSE st
         IN  AdvanceCol(s0, nxt.char)
    ELSE
    LET fg_match == st.current_fg # None
                    /\ rgba_equal(st.current_fg[1], nxt.fg, COLOR_EPSILON_DEFAULT)
        bg_match == st.current_bg # None
                    /\ rgba_equal(st.current_bg[1], nxt.bg, COLOR_EPSILON_DEFAULT)
        same_attributes == fg_match /\ bg_match /\ nxt.attributes = st.current_attributes
        s1 == IF ~same_attributes \/ st.run_start = None
              THEN StartRun(r, st, x, y, nxt)
              ELSE st
        copied == set_cell(st.cur, r.width, r.height, x, y,
                           nxt.char, nxt.fg, nxt.bg, nxt.attributes)
    IN
    IF nxt.char = WIDE_CHAR_CONTINUATION
    THEN [s1 EXCEPT !.cur = copied, !.cells_updated = @ + 1]
    ELSE LET w == codepoint_display_width(nxt.char)
             out_char == IF w = 0 THEN 32 ELSE nxt.char
             s2 == [s1 EXCEPT !.run_buffer = @ \o Utf8Encode(out_char),
                              !.run_length = @ + 1,
                              !.cur = copied,
                              !.cells_updated = @ + 1]
         IN  AdvanceCol(s2, nxt.char)

RECURSIVE CellLoop(_, _, _, _, _)
CellLoop(r, st, x, y, force_render) ==
    IF x >= r.width THEN st
    ELSE Only({ CellLoop(r, s, x + 1, y, force_render) :
                    s \in { CellStep(r, st, x, y, force_render) } })

\* a first frame that skips its blank rows in either screen mode
SkipEmptyLines_in_any_mode(r) == ~r.once

\* skip_empty_lines: the first inline frame leaves out the rows that hold only blank cells
SkipEmptyLines(r) == ~r.alt /\ ~r.once

\* a row that holds only blank cells
LineIsEmpty(r, y) ==
    \A x \in 0 .. (r.width - 1) :
        LET c == get(r.nxt, r.width, r.height, x, y) IN
        c # None =>
            ~ \/ c[1].char # DEFAULT_SPACE_CHAR
              \/ ~rgba_equal(c[1].fg, WHITE, COLOR_EPSILON_DEFAULT)
              \/ ~rgba_equal(c[1].bg, BLACK, COLOR_EPSILON_DEFAULT)

\* The body of `for y in 0..render_height` for one row
RowStep(r, st, y, force_render) ==
    LET skip_empty_lines == SkipEmptyLines(r)
        s0 == [st EXCEPT !.run_start = None, !.run_start_visual_col = None,
                         !.run_length = 0, !.run_buffer = << >>,
                         !.current_visual_col = 0]
    IN
    IF skip_empty_lines /\ LineIsEmpty(r, y) THEN s0
    ELSE LET s2 == Only({ IF s1.run_length > 0 THEN FlushRun(r, s1, y) ELSE s1 :
                              s1 \in { CellLoop(r, s0, 0, y, force_render) } })
         IN  IF ~r.alt /\ y < r.lines
             THEN [s2 EXCEPT !.out = @ \o << ERASE_LINE >>]
             ELSE s2

RECURSIVE RowLoop(_, _, _, _, _)
RowLoop(r, st, y, render_height, force_render) ==
    IF y >= render_height THEN st
    ELSE Only({ RowLoop(r, s, y + 1, render_height, force_render) :
                    s \in { RowStep(r, st, y, force_render) } })

\* The bytes after the rows: SGR reset, the inline shrink erase, the cursor epilogue
FrameTail(r) ==
    << RESET >>
    \o (IF ~r.alt /\ r.once /\ r.prev_lines > r.lines
        THEN << Tok("move", r.istate.start_row + r.lines + 1, 1, 0), ERASE_DOWN >>
        ELSE << >>)
    \o (IF r.cursor
        THEN write_cursor_color(rgba_component_to_u8(WHITE[1]), rgba_component_to_u8(WHITE[2]),
                                rgba_component_to_u8(WHITE[3]))
             \o << CURSOR_BLOCK >>
             \o (IF r.alt
                 THEN write_move_to(DEFAULT_CURSOR_X, DEFAULT_CURSOR_Y + render_offset)
                 ELSE IF DEFAULT_CURSOR_Y < r.lines
                      THEN write_move_to_inline(DEFAULT_CURSOR_X, DEFAULT_CURSOR_Y + 1, FALSE,
                                                r.istate, None, None, 0)
                      ELSE << >>)
             \o << SHOW_CURSOR >>
        ELSE << HIDE_CURSOR >>)

\* prepare_render_frame: the output bytes, the updated `current`, the saved inline colours
prepare_render_frame(r, force) ==
    LET force_render == force \/ ~r.alt
        render_height == IF ~r.alt THEN r.lines ELSE r.height
    IN  Only({ [ out |-> st.out \o FrameTail(r),
                 cur |-> st.cur,
                 istate |-> [r.istate EXCEPT !.saved_fg = st.current_fg,
                                             !.saved_bg = st.current_bg,
                                             !.saved_attrs = AsU8(st.current_attributes)],
                 cells_updated |-> st.cells_updated,
                 nxt |-> [i \in DOMAIN r.nxt |-> Cell(DEFAULT_SPACE_CHAR, WHITE, r.bg, 0)] ] :
               st \in { RowLoop(r, FlushInit(r), 0, render_height, force_render) } })

-----------------------------------------------------------------------------
(* A VT terminal, as far as the frame's tokens touch the cells of the grid.  *)
(* It is the observer of the byte stream, not part of the renderer.          *)

DefaultColor == << -1, -1, -1 >>

\* What a terminal shows for a grid cell: 24-bit colours, no alpha
View(cell) ==
    [ char |-> cell.char,
      fg |-> << rgba_component_to_u8(cell.fg[1]), rgba_component_to_u8(cell.fg[2]),
                rgba_component_to_u8(cell.fg[3]) >>,
      bg |-> << rgba_component_to_u8(cell.bg[1]), rgba_component_to_u8(cell.bg[2]),
                rgba_component_to_u8(cell.bg[3]) >>,
      attributes |-> cell.attributes ]

ViewGrid(buf) == [i \in DOMAIN buf |-> View(buf[i])]

Utf8Need(b) == IF b < 128 THEN 1 ELSE IF b < 224 THEN 2 ELSE IF b < 240 THEN 3 ELSE 4

Utf8Decode(bs) ==
    IF Len(bs) = 1 THEN bs[1]
    ELSE IF Len(bs) = 2 THEN (bs[1] - 192) * 64 + (bs[2] - 128)
    ELSE IF Len(bs) = 3 THEN (bs[1] - 224) * 4096 + (bs[2] - 128) * 64 + (bs[3] - 128)
    ELSE (bs[1] - 240) * 262144 + (bs[2] - 128) * 4096 + (bs[3] - 128) * 64 + (bs[4] - 128)

AttrBitOfSgr(code) ==
    IF code = 1 THEN 1 ELSE IF code = 2 THEN 2 ELSE IF code = 3 THEN 4
    ELSE IF code = 4 THEN 8 ELSE IF code = 5 THEN 16 ELSE IF code = 7 THEN 32
    ELSE IF code = 8 THEN 64 ELSE 128

TermStart(cells) ==
    [ row |-> 1, col |-> 1, fg |-> DefaultColor, bg |-> DefaultColor, attributes |-> 0,
      pending |-> << >>, cells |-> cells ]

\* The scalar cp is printed at the cursor; row0 is the screen row of grid row 0
TermPut(t, cp, w, h, row0) ==
    LET y == t.row - row0
        x == t.col - 1
        cw == codepoint_display_width(cp)
        glyph == [char |-> cp, fg |-> t.fg, bg |-> t.bg, attributes |-> t.attributes]
        tail == [glyph EXCEPT !.char = WIDE_CHAR_CONTINUATION]
        inGrid(xx) == y >= 0 /\ y < h /\ xx >= 0 /\ xx < w
        c1 == IF inGrid(x) THEN [t.cells EXCEPT ![y * w + x] = glyph] ELSE t.cells
        c2 == IF cw = 2 /\ inGrid(x + 1) THEN [c1 EXCEPT ![y * w + x + 1] = tail] ELSE c1
    IN  [t EXCEPT !.cells = c2, !.col = @ + cw, !.pending = << >>]

TermStep(t, tok, w, h, row0) ==
    IF tok.k = "move" THEN [t EXCEPT !.row = tok.a, !.col = tok.b]
    ELSE IF tok.k = "fg" THEN [t EXCEPT !.fg = << tok.a, tok.b, tok.c >>]
    ELSE IF tok.k = "bg" THEN [t EXCEPT !.bg = << tok.a, tok.b, tok.c >>]
    ELSE IF tok.k = "sgr"
    THEN (IF tok.a = 0
          THEN [t EXCEPT !.fg = DefaultColor, !.bg = DefaultColor, !.attributes = 0]
          ELSE IF HasBit(t.attributes, CHOOSE i \in 0 .. 7 : 2 ^ i = AttrBitOfSgr(tok.a))
               THEN t
               ELSE [t EXCEPT !.attributes = @ + AttrBitOfSgr(tok.a)])
    ELSE IF tok.k = "byte"
    THEN LET bs == Append(t.pending, tok.a)
         IN  IF Len(bs) >= Utf8Need(bs[1])
             THEN TermPut(t, Utf8Decode(bs), w, h, row0)
             ELSE [t EXCEPT !.pending = bs]
    ELSE t

RECURSIVE TermApply(_, _, _, _, _, _)
TermApply(t, toks, i, w, h, row0) ==
    IF i > Len(toks) THEN t
    ELSE Only({ TermApply(s, toks, i + 1, w, h, row0) :
                    s \in { TermStep(t, toks[i], w, h, row0) } })

\* The cells of a terminal that showed `shown`, after the frame `toks`
TerminalAfter(shown, toks, w, h, row0) ==
    TermApply(TermStart(shown), toks, 1, w, h, row0).cells

-----------------------------------------------------------------------------
(* Text fragment buffers: text_buffer.rs *)

USE_DEFAULT_FG == 32768
USE_DEFAULT_BG == 16384
USE_DEFAULT_ATTR == 8192
TEXT_GROWTH == 256         \* write_chunk grows a full buffer by this many cells
NEWLINE == 10

TRANSPARENT == << 0, 0, 0, 0 >>

\* Result<T, TextBufferError>
Ok(v) == << "Ok", v >>
Err(e) == << "Err", e >>
IsOk(res) == res[1] = "Ok"

\* Vec::resize(new_len, value): truncates, or grows with copies of value
VecResize(v, new_len, value) ==
    [i \in 0 .. (new_len - 1) |-> IF i \in DOMAIN v THEN v[i] ELSE value]

\* TextBuffer::init
TextBuffer_init(length) ==
    IF length = 0 THEN Err("InvalidDimensions")
    ELSE Ok([ char |-> [i \in 0 .. (length - 1) |-> DEFAULT_SPACE_CHAR],
              fg |-> [i \in 0 .. (length - 1) |-> WHITE],
              bg |-> [i \in 0 .. (length - 1) |-> TRANSPARENT],
              attributes |-> [i \in 0 .. (length - 1) |-> 0],
              length |-> length,
              cursor |-> 0,
              default_fg |-> None, default_bg |-> None, default_attributes |-> None,
              line_starts |-> << 0 >>,
              line_widths |-> << >>,
              current_line_width |-> 0 ])

\* The operations on &mut self give the buffer as they leave it and what they return
Returned(tb, res) == [tb |-> tb, result |-> res]

\* TextBuffer::set_cell
TextBuffer_set_cell(tb, index, ch, fg, bg, attr) ==
    IF index >= tb.length THEN Returned(tb, Err("InvalidIndex"))
    ELSE Returned([tb EXCEPT !.char[index] = ch, !.fg[index] = fg, !.bg[index] = bg,
                             !.attributes[index] = attr], Ok(0))

\* resize that refuses a length below the cursor
TextBuffer_resize_keeps_text(tb, new_length) ==
    IF new_length = tb.length THEN Returned(tb, Ok(0))
    ELSE IF new_length = 0 \/ new_length < tb.cursor
    THEN Returned(tb, Err("InvalidDimensions"))
    ELSE Returned([tb EXCEPT !.char = VecResize(tb.char, new_length, DEFAULT_SPACE_CHAR),
                             !.fg = VecResize(tb.fg, new_length, WHITE),
                             !.bg = VecResize(tb.bg, new_length, TRANSPARENT),
                             !.attributes = VecResize(tb.attributes, new_length, 0),
                             !.length = new_length], Ok(0))

\* TextBuffer::resize
TextBuffer_resize(tb, new_length) ==
    IF new_length = tb.length THEN Returned(tb, Ok(0))
    ELSE IF new_length = 0 THEN Returned(tb, Err("InvalidDimensions"))
    ELSE Returned([tb EXCEPT !.char = VecResize(tb.char, new_length, DEFAULT_SPACE_CHAR),
                             !.fg = VecResize(tb.fg, new_length, WHITE),
                             !.bg = VecResize(tb.bg, new_length, TRANSPARENT),
                             !.attributes = VecResize(tb.attributes, new_length, 0),
                             !.length = new_length], Ok(0))

\* TextBuffer::reset
TextBuffer_reset(tb) ==
    [tb EXCEPT !.cursor = 0, !.line_starts = << 0 >>, !.line_widths = << >>,
               !.current_line_width = 0]

\* str::chars over the bytes of the chunk, which the caller has validated as UTF-8
RECURSIVE chars(_)
chars(text_bytes) ==
    IF text_bytes = << >> THEN << >>
    ELSE LET n == Utf8Need(text_bytes[1])
         IN  << Utf8Decode(SubSeq(text_bytes, 1, n)) >>
             \o chars(SubSeq(text_bytes, n + 1, Len(text_bytes)))

\* The style write_chunk computes from its optional arguments and the buffer's defaults
ChunkStyle(tb, fg, bg, attr) ==
    [ use_fg |-> IF fg # None THEN fg[1]
                 ELSE IF tb.default_fg # None THEN tb.default_fg[1] ELSE WHITE,
      use_bg |-> IF bg # None THEN bg[1]
                 ELSE IF tb.default_bg # None THEN tb.default_bg[1] ELSE TRANSPARENT,
      attr_value |-> (IF fg = None THEN USE_DEFAULT_FG ELSE 0)
                     + (IF bg = None THEN USE_DEFAULT_BG ELSE 0)
                     + (IF attr # None THEN attr[1]
                        ELSE USE_DEFAULT_ATTR
                             + (IF tb.default_attributes # None
                                THEN tb.default_attributes[1] ELSE 0)) ]

\* write_chunk that grows a full buffer by the one cell it is about to write
Grown_by_one(tb) ==
    IF tb.cursor >= tb.length THEN TextBuffer_resize(tb, tb.length + 1).tb ELSE tb

\* write_chunk's loop: a full buffer grows before the cell is written (resize cannot
\* fail here: the new length is neither the old one nor 0)
Grown(tb) ==
    IF tb.cursor >= tb.length THEN TextBuffer_resize(tb, tb.length + TEXT_GROWTH).tb ELSE tb

\* The line table after the cell at the cursor has been written
Advance(stored, codepoint) ==
    IF codepoint = NEWLINE
    THEN [stored EXCEPT !.line_widths = Append(stored.line_widths, stored.current_line_width),
                        !.line_starts = Append(stored.line_starts, stored.cursor + 1),
                        !.current_line_width = 0,
                        !.cursor = stored.cursor + 1]
    ELSE [stored EXCEPT !.current_line_width = stored.current_line_width + 1,
                        !.cursor = stored.cursor + 1]

\* One pass of write_chunk's loop.  st: [tb, err, codepoint_count, was_resized]; an Err
\* of set_cell leaves the loop with `?`
WriteCodepoint(st, codepoint, style) ==
    IF st.err # None THEN st
    ELSE Only({ IF wrote.result[1] = "Err"
                THEN [st EXCEPT !.tb = wrote.tb, !.err = Some(wrote.result[2])]
                ELSE [st EXCEPT !.tb = Advance(wrote.tb, codepoint),
                                !.was_resized = st.was_resized \/ st.tb.cursor >= st.tb.length,
                                !.codepoint_count = st.codepoint_count + 1]
                : wrote \in { TextBuffer_set_cell(grown, grown.cursor, codepoint, style.use_fg,
                                                  style.use_bg, style.attr_value)
                              : grown \in { Grown(st.tb) } } })

RECURSIVE WriteLoop(_, _, _, _)
WriteLoop(st, cps, i, style) ==
    IF i > Len(cps) THEN st
    ELSE WriteLoop(Only({ WriteCodepoint(s, cps[i], style) : s \in { st } }), cps, i + 1, style)

\* TextBuffer::write_chunk: Ok((codepoint_count << 1) | resize_flag)
TextBuffer_write_chunk(tb, text_bytes, fg, bg, attr) ==
    Only({ Returned(st.tb, IF st.err # None THEN Err(st.err[1])
                           ELSE Ok(st.codepoint_count * 2 + (IF st.was_resized THEN 1 ELSE 0)))
           : st \in { WriteLoop([tb |-> tb, err |-> None, codepoint_count |-> 0,
                                 was_resized |-> FALSE],
                                chars(text_bytes), 1, ChunkStyle(tb, fg, bg, attr)) } })

\* finalize_line_info that pushes the width of a line in progress only
TextBuffer_finalize_line_info_in_progress_only(tb) ==
    IF tb.current_line_width > 0
    THEN [tb EXCEPT !.line_widths = Append(tb.line_widths, tb.current_line_width)]
    ELSE tb

\* TextBuffer::finalize_line_info
TextBuffer_finalize_line_info(tb) ==
    IF tb.current_line_width > 0 \/ tb.cursor = 0
    THEN [tb EXCEPT !.line_widths = Append(tb.line_widths, tb.current_line_width)]
    ELSE tb

\* ptr::copy_nonoverlapping out of a Vec: the cells at and past its length are not the
\* buffer's, and what is read there is `stale`
ReadCell(v, i, stale) == IF i \in DOMAIN v THEN v[i] ELSE stale

\* TextBuffer::concat.  stale: [char, fg, bg, attributes] read past the end of an operand
\* whose cursor is above its length
TextBuffer_concat(self, other, stale) ==
    IF self.cursor + other.cursor = 0 THEN Err("InvalidDimensions")
    ELSE Ok([ char |-> [i \in 0 .. (self.cursor + other.cursor - 1) |->
                          IF i < self.cursor THEN ReadCell(self.char, i, stale.char)
                          ELSE ReadCell(other.char, i - self.cursor, stale.char)],
              fg |-> [i \in 0 .. (self.cursor + other.cursor - 1) |->
                          IF i < self.cursor THEN ReadCell(self.fg, i, stale.fg)
                          ELSE ReadCell(other.fg, i - self.cursor, stale.fg)],
              bg |-> [i \in 0 .. (self.cursor + other.cursor - 1) |->
                          IF i < self.cursor THEN ReadCell(self.bg, i, stale.bg)
                          ELSE ReadCell(other.bg, i - self.cursor, stale.bg)],
              attributes |-> [i \in 0 .. (self.cursor + other.cursor - 1) |->
                          IF i < self.cursor THEN ReadCell(self.attributes, i, stale.attributes)
                          ELSE ReadCell(other.attributes, i - self.cursor, stale.attributes)],
              length |-> self.cursor + other.cursor,
              cursor |-> self.cursor + other.cursor,
              default_fg |-> None, default_bg |-> None, default_attributes |-> None,
              line_starts |-> self.line_starts
                              \o [k \in 1 .. (Len(other.line_starts) - 1) |->
                                    other.line_starts[k + 1] + self.cursor],
              line_widths |-> self.line_widths \o other.line_widths,
              current_line_width |-> other.current_line_width ])

-----------------------------------------------------------------------------
(* The inputs of a run *)

BLUE == << 0, 0, ColorOne, ColorOne >>
YELLOW == << ColorOne, ColorOne, 0, ColorOne >>
HALF_WHITE == << ColorOne, ColorOne, ColorOne, 500000 >>
HALF_RED == << ColorOne, 0, 0, 500000 >>
FAINT_GREEN == << 0, ColorOne, 0, 900000 >>
NEARLY_RED == << ColorOne, 0, 0, 999500 >>
\* two colours less than epsilon apart whose red components round to different bytes
DIM_RED_LO == << 1960, 0, 0, ColorOne >>
DIM_RED_HI == << 1961, 0, 0, ColorOne >>

BOLD == 1
WIDE == 19990          \* U+4E16, an East Asian Wide code point

Blank == Cell(DEFAULT_SPACE_CHAR, WHITE, BLACK, 0)

AlphaStyle == { Cell(65, WHITE, BLACK, 0), Cell(66, WHITE, BLACK, 0), Cell(65, WHITE, BLUE, BOLD) }
AlphaEps == { Cell(65, WHITE, DIM_RED_LO, 0), Cell(65, WHITE, DIM_RED_HI, 0),
              Cell(66, WHITE, DIM_RED_LO, 0) }
AlphaWide == { Cell(WIDE, WHITE, BLACK, 0), Cell(WIDE_CHAR_CONTINUATION, WHITE, BLACK, 0),
               Cell(88, WHITE, BLACK, 0) }
AlphaWideStyled == { Cell(WIDE, WHITE, BLACK, 0), Cell(WIDE_CHAR_CONTINUATION, WHITE, BLUE, 0),
                     Cell(88, WHITE, BLACK, 0) }
AlphaRows == { Cell(65, WHITE, BLACK, 0), Cell(65, WHITE, BLUE, 0) }
AlphaInline == { Blank, Cell(65, WHITE, BLACK, 0) }
AlphaOne == { Cell(65, WHITE, BLACK, 0) }
AlphaDraw == { Cell(65, WHITE, BLUE, BOLD), Blank, Cell(0, HALF_WHITE, HALF_RED, 0) }
AlphaBlit == { Cell(65, WHITE, BLUE, BOLD), Blank }
AlphaFresh == { Blank }

\* A scenario: the grid, the screen mode, the cells the host draws with and the
\* operations the host calls besides render
Scn(w, h, alt, cells, ops) == [alt |-> alt, cells |-> cells, h |-> h, ops |-> ops, w |-> w]

Scenarios ==
    { Scn(3, 1, TRUE, AlphaStyle, {}),
      Scn(3, 1, TRUE, AlphaEps, {}),
      Scn(3, 1, TRUE, AlphaWide, {}),
      Scn(3, 1, TRUE, AlphaWideStyled, {}),
      Scn(2, 2, TRUE, AlphaRows, {"set_background_color", "set_cursor_position"}),
      Scn(2, 2, FALSE, AlphaInline, {"set_lines_rendered"}),
      Scn(1, 1, FALSE, AlphaInline, {}),
      Scn(1, 1, TRUE, AlphaInline, {}),
      Scn(1, 1, TRUE, AlphaOne, {"set_use_thread", "destroy", "drop"}),
      Scn(1, 1, TRUE, AlphaOne, {"enable_mouse", "destroy", "drop"}),
      Scn(1, 1, FALSE, AlphaOne, {"enable_mouse", "disable_mouse", "destroy", "drop"}),
      Scn(2, 1, TRUE, AlphaOne, {"add_to_hit_grid"}) }

\* Text buffer runs: one buffer written and finalized, one buffer written, resized and
\* reset, and three buffers under concat
TextScenarios ==
    { Scn(1, 1, TRUE, AlphaOne, {"finalize_line_info"}),
      Scn(1, 1, TRUE, AlphaOne, {"set_cell", "resize", "reset"}),
      Scn(1, 1, TRUE, AlphaOne, {"concat", "deinit"}) }

TextHandles == 1 .. MaxTextBuffers
TextLengths == { 0, 1, 2 }
TextIndexes == { 0, 2 }
WideBytes == [i \in 1 .. Len(Utf8Encode(WIDE)) |-> Utf8Encode(WIDE)[i].a]
PlainStyle == << None, None, None >>
\* the chunks the host writes: << text_bytes, << fg, bg, attr >> >>
TextChunks ==
    IF "finalize_line_info" \in scenario.ops
    THEN { << << >>, PlainStyle >>, << << 97 >>, PlainStyle >>, << << NEWLINE >>, PlainStyle >>,
           << << 98, NEWLINE >>, << Some(BLUE), Some(BLACK), Some(BOLD) >> >>,
           << WideBytes, PlainStyle >> }
    ELSE { << << 97 >>, PlainStyle >>, << << NEWLINE >>, PlainStyle >> }
\* render calls in a run: one more on a single cell when the host calls nothing else
FrameCap == IF scenario.w * scenario.h = 1 /\ scenario.ops = { } THEN MaxFrames + 1 ELSE MaxFrames
\* the runs whose flusher invocations are kept for comparison
FlushesKept == scenario.w * scenario.h = 1
\* the cursor up to which the host writes
TextCap == IF "concat" \in scenario.ops THEN 1 ELSE MaxText
StaleCells == { Cell(0, TRANSPARENT, TRANSPARENT, 0), Cell(97, WHITE, BLUE, BOLD) }

\* Grid runs: single cells stored with and without blending, clear, and a grid drawn
\* into another
DrawScenarios ==
    { Scn(2, 2, TRUE, AlphaDraw, {"set", "set_cell", "set_cell_with_alpha_blending", "get"}),
      Scn(2, 2, TRUE, AlphaDraw, {"clear"}),
      Scn(2, 2, TRUE, AlphaBlit, {"draw_frame_buffer"}),
      Scn(2, 2, TRUE, AlphaDraw, {"resize"}),
      Scn(6, 1, TRUE, AlphaFresh, {"draw_text", "fill_rect"}),
      Scn(20, 5, TRUE, AlphaFresh, {"draw_box"}),
      Scn(8, 3, TRUE, AlphaFresh, {"draw_box"}),
      Scn(2, 2, TRUE, AlphaFresh, {"draw_super_sample_buffer"}),
      Scn(2, 2, TRUE, AlphaBlit, {"draw_packed_buffer"}) }

\* calls made on one grid in a run
DrawDepth == IF scenario.ops \cap {"clear", "fill_rect"} # { } THEN MaxDraws ELSE MaxDraws - 1
\* coordinates: inside the grid, and one column or row past it
DrawCoords == 0 .. 2
DrawChars == { DEFAULT_SPACE_CHAR, 67 }
DrawFgs == { WHITE, HALF_WHITE }
DrawBgs == { BLUE, HALF_RED, FAINT_GREEN, NEARLY_RED, TRANSPARENT }
DrawAttributes == { 0, BOLD }
ClearBgs == { BLACK, HALF_RED }
ClearChars == { None, Some(65), Some(0) }
\* the texts drawn: "hello ", "h" and e-acute, and the empty string
Texts == { << 104, 101, 108, 108, 111, 32 >>, << 104, 233 >>, << >> }
TextXs == { 0, 5, 6 }
TextFgs == { WHITE, BLUE }
TextBgs == { None, Some(HALF_RED) }
\* the rectangles filled: << x, y, width, height >>
Rects == { << 0, 0, 6, 1 >>, << 3, 0, 6, 2 >>, << 0, 0, 0, 1 >>, << 0, 1, 6, 1 >>, << 6, 0, 1, 1 >> }
FillBgs == { HALF_RED, BLUE }
\* the single-line border glyphs: corners, horizontal, vertical, T-junctions and cross
STANDARD_CHARS == << 9484, 9488, 9492, 9496, 9472, 9474, 9516, 9524, 9500, 9508, 9532 >>
\* the boxes drawn, << x, y, width, height >>: on the 20x5 grid the box that covers it, the
\* same box hanging over the left and over the right edge; on the 8x3 grid boxes of three
\* widths and heights inside and over each edge
Boxes ==
    IF scenario.w = 20
    THEN { << 0, 0, 20, 5 >>, << -1, 0, 20, 5 >>, << 4, 0, 20, 5 >> }
    ELSE { << x, y, w, h >> : x \in { -1, 0, 2 }, y \in { -1, 0, 1 }, w \in { 4, 6, 8 },
                             h \in { 1, 2, 3 } }
\* the sides drawn, << top, right, bottom, left >>
BoxSides ==
    IF scenario.w = 20
    THEN { << TRUE, TRUE, TRUE, TRUE >> }
    ELSE { << TRUE, TRUE, TRUE, TRUE >>, << FALSE, FALSE, FALSE, FALSE >>,
           << TRUE, FALSE, FALSE, FALSE >>, << FALSE, TRUE, FALSE, TRUE >>,
           << FALSE, TRUE, TRUE, TRUE >> }
\* titles: none, "Hi", and on the large grid the empty string
Titles == IF scenario.w = 20 THEN { None, Some(<< 72, 105 >>), Some(<< >>) }
          ELSE { None, Some(<< 72, 105 >>) }
TitleAlignments == { 0, 1, 2 }
BorderColors == IF scenario.w = 20 THEN { BLUE, HALF_WHITE } ELSE { BLUE }
BoxBackgrounds == { YELLOW, HALF_RED }
\* pixels as bytes << r, g, b, a >>: red, blue, white, black, green, and a red that is
\* fully transparent
PixelBytes ==
    IF "draw_super_sample_buffer" \in scenario.ops
    THEN { << 255, 0, 0, 255 >>, << 0, 0, 255, 255 >>, << 255, 255, 255, 255 >>,
           << 0, 0, 0, 255 >>, << 0, 255, 0, 255 >>, << 255, 0, 0, 0 >> }
    ELSE { }
\* the arrangements of two pixels A and B in an image: a checker of single pixels, a
\* checker whose odd cell columns are mirrored, columns, rows, and A in the top left
\* pixel of every 2x2 block only
PixelPatterns == { "checker", "mirrored", "columns", "rows", "corner" }
\* the sizes of the images in pixels, << width, height >>: one cell, two cells side by
\* side, four cells
ImageSizes == { << 2, 2 >>, << 4, 2 >>, << 4, 4 >> }
\* the cell the image's first pixel block is drawn to
SamplePositions == { 0, 1 }
SampleFormats == { 0, 1 }
\* the code points of the first packed record: NUL, the last control character, SPACE,
\* '!', '~', DEL, the code points around the first block element, the last code point
\* and the number after it
PackedChars == { 0, 31, 32, 33, 126, 127, 9599, 9600, 1114111, 1114112 }
PackedBgs == { BLUE, HALF_RED }
\* the cell the first record is drawn to, the row stride and the row limit
PackedPositions == { 0, 1 }
PackedWidths == { 1, 2 }
PackedHeights == { 1, 2 }
\* the bytes handed over: four whole records, and three with 47 bytes of a fourth
PackedLens == { 4 * CELL_RESULT_SIZE, 4 * CELL_RESULT_SIZE - 1 }
\* the dimensions a grid is resized to: none, smaller, the same and larger
ResizeDims == 0 .. 3
\* the grids drawn from: a square of four different cells, one of them fully transparent,
\* and a row wider than the destination
SourceSquare ==
    << Cell(97, WHITE, BLUE, 0), Cell(98, HALF_WHITE, HALF_RED, BOLD),
       Cell(DEFAULT_SPACE_CHAR, TRANSPARENT, TRANSPARENT, 0), Cell(100, BLUE, WHITE, 0) >>
SourceRow ==
    << Cell(101, WHITE, BLACK, 0), Cell(102, WHITE, HALF_RED, 0), Cell(103, BLUE, BLACK, BOLD) >>
Grid(w, h, respect_alpha, cellSeq) ==
    [ cells |-> [i \in 0 .. (w * h - 1) |-> cellSeq[i + 1]],
      height |-> h, respect_alpha |-> respect_alpha, width |-> w ]
\* the grids a run with draw_frame_buffer draws from
Sources ==
    IF "draw_frame_buffer" \in scenario.ops
    THEN { Grid(2, 2, FALSE, SourceSquare), Grid(2, 2, TRUE, SourceSquare),
           Grid(3, 1, FALSE, SourceRow), Grid(3, 1, TRUE, SourceRow) }
    ELSE { }
DestXs == { -1, 0, 1, I32_MAX }
DestYs == { -1, 0, 1 }
\* drawFrameBuffer passes an argument of 0 as None
SrcXs == { None, Some(1), Some(3) }
SrcYs == { None, Some(1) }
SrcWidths == { None, Some(1), Some(3) }
SrcHeights == { None, Some(1) }

\* the cursor row that create reads from the terminal (cursor::position)
StartRows == { 4 }
BackgroundInputs == { BLACK, BLUE }

\* A u32 argument is the pair of its 16-bit halves <<high, low>>
U32(hi, lo) == << hi, lo >>

\* arguments of add_to_hit_grid; the last size is u32::MAX
HitColumns == { -1, 0, 1 }
HitWidths == { U32(0, 0), U32(0, 1), U32(0, 2), U32(65535, 65535) }
HitRows == { << -1, U32(0, 1) >>, << 0, U32(0, 1) >>, << 0, U32(65535, 65535) >> }
HitIds == { 1, 2 }

-----------------------------------------------------------------------------
(* The renderer shell *)

ZeroGrid(w, h) == [i \in 0 .. (w * h - 1) |-> 0]

\* CliRenderer::create
create ==
    /\ width = scenario.w
    /\ height = scenario.h
    /\ use_alternate_screen = scenario.alt
    /\ current_render_buffer = clear(scenario.w, scenario.h, BLACK, CLEAR_CHAR)
    /\ next_render_buffer = clear(scenario.w, scenario.h, BLACK, DEFAULT_SPACE_CHAR)
    /\ background_color = BLACK
    /\ has_rendered_once = FALSE
    /\ lines_rendered = 1
    /\ previous_lines_rendered = 1
    /\ \E row \in StartRows :
          inline_state = [start_row |-> row, start_col |-> 0, saved_fg |-> None,
                          saved_bg |-> None, saved_attrs |-> 0]
    /\ cursor_visible = FALSE
    /\ frame_count = 0
    /\ output_buffer = << >>
    /\ active_buffer = "A"
    /\ current_hit_grid = ZeroGrid(scenario.w, scenario.h)
    /\ next_hit_grid = ZeroGrid(scenario.w, scenario.h)
    /\ hit_grid_width = scenario.w
    /\ hit_grid_height = scenario.h
    /\ use_thread = FALSE
    /\ render_thread = FALSE
    /\ render_requested = FALSE
    /\ should_terminate = FALSE
    /\ render_in_progress = FALSE
    /\ render_request = None
    /\ mutex = "free"
    /\ m_pc = "idle"
    /\ w_pc = "none"
    /\ m_notified = FALSE
    /\ w_notified = FALSE
    /\ m_frame = 0
    /\ w_request = None
    /\ stdout = << >>
    /\ next_at_render = next_render_buffer
    /\ current_at_render = current_render_buffer
    /\ force_at_render = FALSE
    /\ lines_at_render = << 1, 1 >>
    /\ terminal = ViewGrid(current_render_buffer)
    /\ hits_issued_current = ZeroGrid(scenario.w, scenario.h)
    /\ hits_issued_next = ZeroGrid(scenario.w, scenario.h)
    /\ handed_over = {}
    /\ sync_rendered = FALSE
    /\ flushes = << >>
    /\ mouse_enabled = FALSE
    /\ mouse_movement_enabled = FALSE
    /\ stdout_direct = << >>

\* no text buffer has been made
TextIdle ==
    /\ text_buffers = [h \in TextHandles |-> None]
    /\ text_result = None
    /\ text_log = [h \in TextHandles |-> None]

\* no grid besides the renderer's two
DrawIdle ==
    /\ buffer = None
    /\ call = None

\* createOptimizedBuffer, and the cells the host has stored in the grid since
DrawReady ==
    /\ buffer \in { Some([ width |-> scenario.w, height |-> scenario.h,
                           respect_alpha |-> FALSE, cells |-> cells ]) :
                    cells \in [0 .. (scenario.w * scenario.h - 1) -> scenario.cells] }
    /\ call = None

Init ==
    /\ scenario \in Scenarios
    /\ create
    /\ TextIdle
    /\ DrawIdle

Flip(buf) == IF buf = "A" THEN "B" ELSE "A"

\* notify_all on render_condition: every thread asleep on it is woken
NotifyAll ==
    /\ m_notified' = (m_notified \/ m_pc = "r_sleeping")
    /\ w_notified' = (w_notified \/ w_pc = "sleeping")

\* The renderer as the flusher reads it, with the frame the host drew into `next`
RendererWith(drawn) ==
    [ width |-> width, height |-> height, alt |-> use_alternate_screen,
      cur |-> current_render_buffer, nxt |-> drawn, istate |-> inline_state,
      lines |-> lines_rendered, prev_lines |-> previous_lines_rendered,
      once |-> has_rendered_once, cursor |-> cursor_visible, bg |-> background_color ]

\* render(force), with `drawn` the frame the host has drawn into `next` since the last
\* render.  With the writer thread off the frame is written before render returns;
\* with it on, render goes on to the handshake (RenderLock .. RenderHandOff).
render(drawn, force) ==
    /\ m_pc = "idle"
    /\ frame_count < FrameCap
    /\ \E f \in { prepare_render_frame(r, force \/ ~has_rendered_once) :
                     r \in { RendererWith(drawn) } } :
       LET frame == frame_count + 1
       IN  /\ current_render_buffer' = f.cur
           /\ next_render_buffer' = f.nxt
           /\ inline_state' = f.istate
           /\ output_buffer' = f.out
           /\ current_hit_grid' = next_hit_grid
           /\ next_hit_grid' = [i \in DOMAIN current_hit_grid |-> 0]
           /\ next_at_render' = drawn
           /\ current_at_render' = current_render_buffer
           /\ force_at_render' = force
           /\ lines_at_render' = << lines_at_render[2], lines_rendered >>
           /\ terminal' = TerminalAfter(ViewGrid(current_render_buffer), f.out, width, height,
                                        1 + render_offset
                                        + (IF use_alternate_screen THEN 0
                                           ELSE inline_state.start_row))
           /\ hits_issued_current' = hits_issued_next
           /\ hits_issued_next' = [i \in DOMAIN hits_issued_next |-> 0]
           /\ flushes' = IF FlushesKept
                         THEN Append(flushes, [ inputs |-> RendererWith(drawn),
                                                force |-> force \/ ~has_rendered_once,
                                                out |-> f.out ])
                         ELSE flushes
           /\ IF use_thread
              THEN /\ m_pc' = "r_lock"
                   /\ m_frame' = frame
                   /\ UNCHANGED <<stdout, active_buffer, has_rendered_once, frame_count,
                                  sync_rendered>>
              ELSE /\ stdout' = stdout \o << <<frame, 1>>, <<frame, 2>> >>
                   /\ active_buffer' = Flip(active_buffer)
                   /\ has_rendered_once' = TRUE
                   /\ frame_count' = frame_count + 1
                   /\ sync_rendered' = TRUE
                   /\ UNCHANGED <<m_pc, m_frame>>
    /\ UNCHANGED <<asideVars, scenario, width, height, use_alternate_screen, background_color,
                   lines_rendered, previous_lines_rendered, cursor_visible,
                   hit_grid_width, hit_grid_height, use_thread, render_thread,
                   render_requested, should_terminate, render_in_progress, render_request,
                   mutex, w_pc, m_notified, w_notified, w_request, handed_over>>

set_lines_rendered(lines) ==
    /\ m_pc = "idle"
    /\ "set_lines_rendered" \in scenario.ops
    /\ previous_lines_rendered' = lines_rendered
    /\ lines_rendered' = lines
    /\ UNCHANGED <<asideVars, scenario, width, height, use_alternate_screen, current_render_buffer,
                   next_render_buffer, background_color, has_rendered_once, inline_state,
                   cursor_visible, frame_count, output_buffer, active_buffer,
                   hitVars, threadVars, seenVars>>

set_background_color(rgba) ==
    /\ m_pc = "idle"
    /\ "set_background_color" \in scenario.ops
    /\ background_color' = rgba
    /\ UNCHANGED <<asideVars, scenario, width, height, use_alternate_screen, current_render_buffer,
                   next_render_buffer, has_rendered_once, lines_rendered,
                   previous_lines_rendered, inline_state, cursor_visible, frame_count,
                   output_buffer, active_buffer, hitVars, threadVars, seenVars>>

\* set_cursor_position(DEFAULT_CURSOR_X, DEFAULT_CURSOR_Y, visible).  The move and the
\* show/hide sequence it writes at once are no part of a frame and are not kept in `stdout`.
set_cursor_position(visible) ==
    /\ m_pc = "idle"
    /\ "set_cursor_position" \in scenario.ops
    /\ cursor_visible' = visible
    /\ UNCHANGED <<asideVars, scenario, width, height, use_alternate_screen, current_render_buffer,
                   next_render_buffer, background_color, has_rendered_once, lines_rendered,
                   previous_lines_rendered, inline_state, frame_count, output_buffer,
                   active_buffer, hitVars, threadVars, seenVars>>

-----------------------------------------------------------------------------
(* Hit grid *)

Max(a, b) == IF a > b THEN a ELSE b
Min(a, b) == IF a < b THEN a ELSE b

\* `v as i32` for a u32 v
AsI32(v) == (IF v[1] >= 32768 THEN v[1] - 65536 ELSE v[1]) * 65536 + v[2]

\* a + b on i32 as a release build computes it (two's complement wrap-around)
AddI32(a, b) ==
    IF b > 0 /\ a > I32_MAX - b THEN (a - I32_MAX - 1) + (b - I32_MAX - 1)
    ELSE IF b < 0 /\ a < (-I32_MAX - 1) - b THEN (a + I32_MAX + 1) + (b + I32_MAX + 1)
    ELSE a + b

\* next_hit_grid after add_to_hit_grid(x, y, w, h, id)
HitGridAdd(grid, gw, gh, x, y, w, h, id) ==
    LET start_x == Min(Max(x, 0), gw)
        start_y == Min(Max(y, 0), gh)
        end_x == Min(Max(AddI32(x, AsI32(w)), 0), gw)
        end_y == Min(Max(AddI32(y, AsI32(h)), 0), gh)
    IN  IF start_x >= end_x \/ start_y >= end_y THEN grid
        ELSE [i \in DOMAIN grid |->
                 IF /\ (i \div gw) >= start_y /\ (i \div gw) < end_y
                    /\ (i % gw) >= start_x /\ (i % gw) < end_x
                 THEN id ELSE grid[i]]

\* n < v for a small integer n and a u32 v
U32Above(v, n) == n < 0 \/ v[1] > 0 \/ v[2] > n

\* The cell with index i lies in the rectangle [x, x + w) x [y, y + h)
Covers(gw, i, x, y, w, h) ==
    /\ (i % gw) >= x /\ U32Above(w, (i % gw) - x)
    /\ (i \div gw) >= y /\ U32Above(h, (i \div gw) - y)

add_to_hit_grid(x, y, w, h, id) ==
    /\ m_pc = "idle"
    /\ "add_to_hit_grid" \in scenario.ops
    /\ next_hit_grid' = HitGridAdd(next_hit_grid, hit_grid_width, hit_grid_height, x, y, w, h, id)
    /\ hits_issued_next' = [i \in DOMAIN hits_issued_next |->
                               IF Covers(width, i, x, y, w, h) THEN id
                               ELSE hits_issued_next[i]]
    /\ UNCHANGED <<asideVars, shellVars, current_hit_grid, hit_grid_width, hit_grid_height, threadVars,
                   next_at_render, current_at_render, force_at_render, lines_at_render,
                   terminal, hits_issued_current, handed_over, sync_rendered, flushes>>

check_hit(x, y) ==
    IF x >= hit_grid_width \/ y >= hit_grid_height THEN 0
    ELSE current_hit_grid[y * hit_grid_width + x]

\* CliRenderer::resize(w, h).  The size is stored first; OptimizedBuffer::resize of
\* `current` fails for w = 0 or h = 0 and the error is returned at once; else both grids
\* are resized and cleared, and the hit grids are replaced when w * h exceeds their length.
\* The cursor stays where it is: min(DEFAULT_CURSOR_X, w) = DEFAULT_CURSOR_X for w >= 1.
\* The rectangles remembered for the hit grid start afresh with the new size.
renderer_resize(w, h) ==
    /\ m_pc = "idle"
    /\ "resize" \in scenario.ops
    /\ IF width = w /\ height = h
       THEN UNCHANGED <<width, height, current_render_buffer, next_render_buffer, hitVars,
                        hits_issued_current, hits_issued_next>>
       ELSE /\ width' = w
            /\ height' = h
            /\ hits_issued_current' = ZeroGrid(w, h)
            /\ hits_issued_next' = ZeroGrid(w, h)
            /\ IF w = 0 \/ h = 0
               THEN UNCHANGED <<current_render_buffer, next_render_buffer, hitVars>>
               ELSE /\ current_render_buffer' = clear(w, h, BLACK, CLEAR_CHAR)
                    /\ next_render_buffer' = clear(w, h, background_color, DEFAULT_SPACE_CHAR)
                    /\ IF w * h > Cardinality(DOMAIN current_hit_grid)
                       THEN /\ current_hit_grid' = ZeroGrid(w, h)
                            /\ next_hit_grid' = ZeroGrid(w, h)
                            /\ hit_grid_width' = w
                            /\ hit_grid_height' = h
                       ELSE UNCHANGED hitVars
    /\ UNCHANGED <<asideVars, scenario, use_alternate_screen, background_color,
                   has_rendered_once, lines_rendered, previous_lines_rendered, inline_state,
                   cursor_visible, frame_count, output_buffer, active_buffer, threadVars,
                   next_at_render, current_at_render, force_at_render, lines_at_render,
                   terminal, handed_over, sync_rendered, flushes>>

-----------------------------------------------------------------------------
(* Drawing operations of a cell grid: buffer.rs *)

\* a * b on colour components: the product of two fixed-point numbers, rounded down
Mul(a, b) ==
    (a \div 1000) * (b \div 1000)
    + ((a \div 1000) * (b % 1000) + (a % 1000) * (b \div 1000)
       + ((a % 1000) * (b % 1000)) \div 1000) \div 1000

\* f32::powf, on the bases and exponents the alphas drawn with lead to
powf(base, exponent) ==
    CASE base = 0 -> 0
      [] base = ColorOne -> ColorOne
      [] base = 250000 /\ exponent = 900000 -> 287175
      [] base = 500000 /\ exponent = 900000 -> 535887
      [] base = 750000 /\ exponent = 900000 -> 771890
      [] base = 500000 /\ exponent = 200000 -> 870551

\* is_rgba_with_alpha that takes an opaque colour for a translucent one
is_rgba_with_alpha_inclusive(color) == color[4] <= ColorOne

is_rgba_with_alpha(color) == color[4] < ColorOne

\* the perceptual alpha of blend_colors
PerceptualAlpha(alpha) ==
    IF alpha > 800000
    THEN 800000 + Mul(powf(Mul(alpha - 800000, 5 * ColorOne), 200000), 200000)
    ELSE powf(alpha, 900000)

blend_colors(overlay, text) ==
    IF overlay[4] >= 999000 THEN overlay
    ELSE << Mul(overlay[1], PerceptualAlpha(overlay[4]))
              + Mul(text[1], ColorOne - PerceptualAlpha(overlay[4])),
            Mul(overlay[2], PerceptualAlpha(overlay[4]))
              + Mul(text[2], ColorOne - PerceptualAlpha(overlay[4])),
            Mul(overlay[3], PerceptualAlpha(overlay[4]))
              + Mul(text[3], ColorOne - PerceptualAlpha(overlay[4])),
            text[4] >>

\* set that takes the column past the last one for a column of the grid
set_past_last_column(buf, w, h, x, y, cell) ==
    IF x > w \/ y >= h THEN buf
    ELSE [i \in DOMAIN buf |-> IF i = y * w + x THEN cell ELSE buf[i]]

\* OptimizedBuffer::set: nothing is stored outside the grid
set(buf, w, h, x, y, cell) ==
    IF x >= w \/ y >= h THEN buf ELSE [buf EXCEPT ![y * w + x] = cell]

\* the blended cell of a set_cell_with_alpha_blending that never keeps the glyph
BlendedCell_overwrites_glyph(dest_cell, ch, fg, bg, attributes) ==
    Cell(ch,
         IF is_rgba_with_alpha(fg) THEN blend_colors(fg, dest_cell.bg) ELSE fg,
         IF is_rgba_with_alpha(bg)
         THEN << blend_colors(bg, dest_cell.bg)[1], blend_colors(bg, dest_cell.bg)[2],
                 blend_colors(bg, dest_cell.bg)[3], bg[4] >>
         ELSE bg,
         attributes)

\* set_cell_with_alpha_blending: the cell stored over dest_cell when fg or bg has alpha
BlendedCell(dest_cell, ch, fg, bg, attributes) ==
    LET preserve_char == /\ ch = DEFAULT_SPACE_CHAR
                         /\ dest_cell.char # 0
                         /\ dest_cell.char # DEFAULT_SPACE_CHAR
        blended_bg_rgb == IF is_rgba_with_alpha(bg) THEN blend_colors(bg, dest_cell.bg) ELSE bg
    IN  Cell(IF preserve_char THEN dest_cell.char ELSE ch,
             IF preserve_char THEN blend_colors(bg, dest_cell.fg)
             ELSE IF is_rgba_with_alpha(fg) THEN blend_colors(fg, dest_cell.bg) ELSE fg,
             << blended_bg_rgb[1], blended_bg_rgb[2], blended_bg_rgb[3], bg[4] >>,
             IF preserve_char THEN dest_cell.attributes ELSE attributes)

set_cell_with_alpha_blending(buf, w, h, x, y, ch, fg, bg, attributes) ==
    IF (is_rgba_with_alpha(bg) \/ is_rgba_with_alpha(fg)) /\ get(buf, w, h, x, y) # None
    THEN set(buf, w, h, x, y, BlendedCell(get(buf, w, h, x, y)[1], ch, fg, bg, attributes))
    ELSE set(buf, w, h, x, y, Cell(ch, fg, bg, attributes))

\* the cell set_cell_with_alpha_blending stores at a position inside the grid that holds
\* dest_cell
StoredCell(dest_cell, ch, fg, bg, attributes) ==
    IF is_rgba_with_alpha(bg) \/ is_rgba_with_alpha(fg)
    THEN BlendedCell(dest_cell, ch, fg, bg, attributes)
    ELSE Cell(ch, fg, bg, attributes)

\* clear that fills with NUL where no char is given
fill_char_nul(char) == IF char = None THEN 0 ELSE char[1]

\* clear: char.unwrap_or(DEFAULT_SPACE_CHAR)
fill_char(char) == IF char = None THEN DEFAULT_SPACE_CHAR ELSE char[1]

\* Option<u32>::unwrap_or
unwrap_or(opt, default) == IF opt = None THEN default ELSE opt[1]

\* The rectangle draw_frame_buffer writes and where it reads from: None when it returns
\* before its loops.  self and source: [width, height, respect_alpha, cells]
BlitPlan(self, dest_x, dest_y, source, src_x_opt, src_y_opt, src_width_opt, src_height_opt) ==
    LET src_x == unwrap_or(src_x_opt, 0)
        src_y == unwrap_or(src_y_opt, 0)
        src_width == unwrap_or(src_width_opt, source.width)
        src_height == unwrap_or(src_height_opt, source.height)
    IN  IF self.width = 0 \/ self.height = 0 \/ source.width = 0 \/ source.height = 0
        THEN None
        ELSE IF src_x >= source.width \/ src_y >= source.height THEN None
        ELSE IF src_width = 0 \/ src_height = 0 THEN None
        ELSE LET clamped_src_width == Min(src_width, source.width - src_x)
                 clamped_src_height == Min(src_height, source.height - src_y)
                 start_dest_x == Max(0, dest_x)
                 start_dest_y == Max(0, dest_y)
                 end_dest_x == Min(self.width - 1,
                                   AddI32(AddI32(dest_x, clamped_src_width), -1))
                 end_dest_y == Min(self.height - 1,
                                   AddI32(AddI32(dest_y, clamped_src_height), -1))
             IN  IF start_dest_x > end_dest_x \/ start_dest_y > end_dest_y THEN None
                 ELSE Some([ src_x |-> src_x, src_y |-> src_y,
                             start_dest_x |-> start_dest_x, start_dest_y |-> start_dest_y,
                             end_dest_x |-> end_dest_x, end_dest_y |-> end_dest_y ])

\* draw_frame_buffer's fast path that reads every row of the source from column src_x
BlitCopied_from_src_x(self, dest_x, dest_y, source, plan, d_x, d_y) ==
    LET s_y == plan.src_y + (d_y - dest_y)
        s_x == plan.src_x
    IN  IF s_y >= source.height \/ s_x >= source.width THEN None
        ELSE IF d_x - plan.start_dest_x
                >= Min(plan.end_dest_x - plan.start_dest_x + 1, source.width - s_x)
        THEN None
        ELSE Some(source.cells[s_y * source.width + s_x + (d_x - plan.start_dest_x)])

\* draw_frame_buffer, fast path: the source cell copied to (d_x, d_y) of the planned
\* rectangle, None where the loops skip
BlitCopied(self, dest_x, dest_y, source, plan, d_x, d_y) ==
    LET s_y == plan.src_y + (d_y - dest_y)
        s_x == plan.src_x + (plan.start_dest_x - dest_x)
    IN  IF s_y >= source.height \/ s_x >= source.width THEN None
        ELSE IF d_x - plan.start_dest_x
                >= Min(plan.end_dest_x - plan.start_dest_x + 1, source.width - s_x)
        THEN None
        ELSE Some(source.cells[s_y * source.width + s_x + (d_x - plan.start_dest_x)])

\* draw_frame_buffer, slow path: the source cell blended into (d_x, d_y), None where the
\* loops skip
BlitBlended(self, dest_x, dest_y, source, plan, d_x, d_y) ==
    LET s_x == plan.src_x + (d_x - dest_x)
        s_y == plan.src_y + (d_y - dest_y)
    IN  IF s_x >= source.width \/ s_y >= source.height THEN None
        ELSE IF source.cells[s_y * source.width + s_x].bg[4] = 0
                /\ source.cells[s_y * source.width + s_x].fg[4] = 0
        THEN None
        ELSE Some(source.cells[s_y * source.width + s_x])

\* OptimizedBuffer::draw_frame_buffer: the cells of self afterwards
draw_frame_buffer(self, dest_x, dest_y, source, src_x, src_y, src_width, src_height) ==
    LET plan == BlitPlan(self, dest_x, dest_y, source, src_x, src_y, src_width, src_height)
    IN  IF plan = None THEN self.cells
        ELSE [i \in DOMAIN self.cells |->
                LET d_x == i % self.width
                    d_y == i \div self.width
                    inside == /\ d_x >= plan[1].start_dest_x /\ d_x <= plan[1].end_dest_x
                              /\ d_y >= plan[1].start_dest_y /\ d_y <= plan[1].end_dest_y
                    from == IF ~inside THEN None
                            ELSE IF ~source.respect_alpha
                            THEN BlitCopied(self, dest_x, dest_y, source, plan[1], d_x, d_y)
                            ELSE BlitBlended(self, dest_x, dest_y, source, plan[1], d_x, d_y)
                IN  IF from = None THEN self.cells[i]
                    ELSE IF ~source.respect_alpha THEN from[1]
                    ELSE set_cell_with_alpha_blending(
                             self.cells, self.width, self.height, d_x, d_y, from[1].char,
                             from[1].fg, from[1].bg, from[1].attributes)[i]]

\* str::is_ascii on a text given as its scalars
is_ascii(text) == \A i \in 1 .. Len(text) : text[i] < 128

\* OptimizedBuffer::draw_text: the cells of self afterwards.  text is the sequence of the
\* scalars of the string; on ASCII text they are its bytes
draw_text(self, text, x, y, fg, bg, attributes) ==
    IF x >= self.width \/ y >= self.height \/ Len(text) = 0 THEN self.cells
    ELSE IF bg # None /\ is_rgba_with_alpha(bg[1])
    THEN [i \in DOMAIN self.cells |->
            IF (i \div self.width) = y /\ (i % self.width) >= x /\ (i % self.width) - x < Len(text)
            THEN StoredCell(self.cells[i], text[(i % self.width) - x + 1], fg, bg[1],
                            attributes)
            ELSE self.cells[i]]
    ELSE IF is_ascii(text)
    THEN [i \in DOMAIN self.cells |->
            IF i >= y * self.width + x
               /\ i - (y * self.width + x) < Min(Len(text), self.width - x)
            THEN Cell(text[i - (y * self.width + x) + 1], fg,
                      IF bg # None THEN bg[1] ELSE self.cells[i].bg, attributes)
            ELSE self.cells[i]]
    ELSE [i \in DOMAIN self.cells |->
            IF (i \div self.width) = y /\ (i % self.width) >= x /\ (i % self.width) - x < Len(text)
            THEN Cell(text[(i % self.width) - x + 1], fg,
                      IF bg # None THEN bg[1] ELSE self.cells[i].bg, attributes)
            ELSE self.cells[i]]

\* fill_rect that blends over every cell as over a glyph
FillBlended_as_glyph(cells, w, h, x, y, bg) ==
    BlendedCell([get(cells, w, h, x, y)[1] EXCEPT !.char = 65], DEFAULT_SPACE_CHAR, WHITE, bg, 0)

\* fill_rect, translucent bg: the cell stored at (x, y) of the rectangle
FillBlended(cells, w, h, x, y, bg) ==
    StoredCell(cells[y * w + x], DEFAULT_SPACE_CHAR, WHITE, bg, 0)

\* OptimizedBuffer::fill_rect: the cells of self afterwards
fill_rect(self, x, y, w, h, bg) ==
    IF self.width = 0 \/ self.height = 0 \/ w = 0 \/ h = 0 THEN self.cells
    ELSE IF x >= self.width \/ y >= self.height THEN self.cells
    ELSE [i \in DOMAIN self.cells |->
            IF /\ (i % self.width) >= x /\ (i % self.width) < Min(x + w, self.width)
               /\ (i \div self.width) >= y /\ (i \div self.width) < Min(y + h, self.height)
            THEN IF is_rgba_with_alpha(bg)
                 THEN FillBlended(self.cells, self.width, self.height,
                                  (i % self.width), (i \div self.width), bg)
                 ELSE Cell(DEFAULT_SPACE_CHAR, WHITE, bg, 0)
            ELSE self.cells[i]]

\* BorderCharIndex, as 1-based positions in border_chars
TopLeft == 1
TopRight == 2
BottomLeft == 3
BottomRight == 4
Horizontal == 5
Vertical == 6

\* draw_box: the clipped rectangle, which of the box's edges are on the grid, and the
\* columns of the title.  title is None or Some of the scalars of the string
BoxGeometry(self, x, y, w, h, border_sides, title, title_alignment) ==
    LET start_x == Max(0, x)
        start_y == Max(0, y)
        end_x == Min(self.width - 1, AddI32(AddI32(x, w), -1))
        end_y == Min(self.height - 1, AddI32(AddI32(y, h), -1))
        is_at_actual_top == start_y = y
        title_length == IF title = None THEN 0 ELSE Len(title[1])
        should_draw_title ==
            /\ title # None
            /\ title_length # 0
            /\ border_sides.top
            /\ is_at_actual_top
            /\ w >= title_length + 4
        title_x == CASE title_alignment = 1 -> start_x + Max(2, (w - title_length) \div 2)
                     [] title_alignment = 2 -> start_x + w - 2 - title_length
                     [] OTHER -> start_x + 2
        title_start_x == IF should_draw_title
                         THEN Max(start_x + 2, Min(title_x, end_x - title_length))
                         ELSE 0
    IN  [ start_x |-> start_x, start_y |-> start_y, end_x |-> end_x, end_y |-> end_y,
          is_at_actual_left |-> start_x = x,
          is_at_actual_right |-> end_x = AddI32(AddI32(x, w), -1),
          is_at_actual_top |-> is_at_actual_top,
          is_at_actual_bottom |-> end_y = AddI32(AddI32(y, h), -1),
          should_draw_title |-> should_draw_title,
          title_start_x |-> title_start_x,
          title_end_x |-> IF should_draw_title THEN title_start_x + title_length - 1 ELSE 0 ]

\* draw_box that draws its border glyphs on the background the cell already has
BorderCell_on_old_bg(self, cells, x, y, ch, fg, bg) ==
    StoredCell(cells[y * self.width + x], ch, fg, cells[y * self.width + x].bg, 0)

\* draw_box: the cell a border glyph makes of (x, y), with attributes 0
BorderCell(self, cells, x, y, ch, fg, bg) ==
    StoredCell(cells[y * self.width + x], ch, fg, bg, 0)

\* draw_box: the background fill
BoxFill(self, g, border_sides, box_background, should_fill) ==
    IF ~should_fill THEN self.cells
    ELSE IF ~border_sides.top /\ ~border_sides.right /\ ~border_sides.bottom
            /\ ~border_sides.left
    THEN fill_rect(self, g.start_x, g.start_y, g.end_x - g.start_x + 1,
                   g.end_y - g.start_y + 1, box_background)
    ELSE LET inner_start_x ==
                 g.start_x + IF border_sides.left /\ g.is_at_actual_left THEN 1 ELSE 0
             inner_start_y ==
                 g.start_y + IF border_sides.top /\ g.is_at_actual_top THEN 1 ELSE 0
             inner_end_x ==
                 g.end_x - IF border_sides.right /\ g.is_at_actual_right THEN 1 ELSE 0
             inner_end_y ==
                 g.end_y - IF border_sides.bottom /\ g.is_at_actual_bottom THEN 1 ELSE 0
         IN  IF inner_end_x >= inner_start_x /\ inner_end_y >= inner_start_y
             THEN fill_rect(self, inner_start_x, inner_start_y,
                            inner_end_x - inner_start_x + 1,
                            inner_end_y - inner_start_y + 1, box_background)
             ELSE self.cells

\* the glyph of column draw_x of a horizontal border whose corners are left_corner and
\* right_corner
HorizontalChar(g, border_chars, border_sides, draw_x, left_corner, right_corner) ==
    IF draw_x = g.start_x /\ g.is_at_actual_left
    THEN IF border_sides.left THEN border_chars[left_corner] ELSE border_chars[Horizontal]
    ELSE IF draw_x = g.end_x /\ g.is_at_actual_right
    THEN IF border_sides.right THEN border_chars[right_corner] ELSE border_chars[Horizontal]
    ELSE border_chars[Horizontal]

\* draw_box: the top border, left out where the title will be
BoxTop(self, cells, g, border_chars, border_sides, border_color, box_background) ==
    IF ~(border_sides.top /\ g.is_at_actual_top) THEN cells
    ELSE [i \in DOMAIN cells |->
            IF (i \div self.width) = g.start_y
               /\ (i % self.width) >= g.start_x /\ (i % self.width) <= g.end_x
               /\ ~(g.should_draw_title /\ (i % self.width) >= g.title_start_x
                    /\ (i % self.width) <= g.title_end_x)
            THEN BorderCell(self, cells, i % self.width, g.start_y,
                            HorizontalChar(g, border_chars, border_sides, i % self.width,
                                           TopLeft, TopRight),
                            border_color, box_background)
            ELSE cells[i]]

\* draw_box: the bottom border
BoxBottom(self, cells, g, border_chars, border_sides, border_color, box_background) ==
    IF ~(border_sides.bottom /\ g.is_at_actual_bottom) THEN cells
    ELSE [i \in DOMAIN cells |->
            IF (i \div self.width) = g.end_y
               /\ (i % self.width) >= g.start_x /\ (i % self.width) <= g.end_x
            THEN BorderCell(self, cells, i % self.width, g.end_y,
                            HorizontalChar(g, border_chars, border_sides, i % self.width,
                                           BottomLeft, BottomRight),
                            border_color, box_background)
            ELSE cells[i]]

\* draw_box: the rows the vertical borders span, << vertical_start_y, vertical_end_y >>
VerticalSpan(g, border_sides) ==
    LET left_border_only == /\ border_sides.left /\ g.is_at_actual_left
                            /\ ~border_sides.top /\ ~border_sides.bottom
        right_border_only == /\ border_sides.right /\ g.is_at_actual_right
                             /\ ~border_sides.top /\ ~border_sides.bottom
        bottom_only_with_verticals ==
            /\ border_sides.bottom /\ g.is_at_actual_bottom /\ ~border_sides.top
            /\ (border_sides.left \/ border_sides.right)
        top_only_with_verticals ==
            /\ border_sides.top /\ g.is_at_actual_top /\ ~border_sides.bottom
            /\ (border_sides.left \/ border_sides.right)
        extend_verticals_to_top ==
            left_border_only \/ right_border_only \/ bottom_only_with_verticals
        extend_verticals_to_bottom ==
            left_border_only \/ right_border_only \/ top_only_with_verticals
    IN  << IF extend_verticals_to_top THEN g.start_y
           ELSE g.start_y + IF border_sides.top /\ g.is_at_actual_top THEN 1 ELSE 0,
           IF extend_verticals_to_bottom THEN g.end_y
           ELSE g.end_y - IF border_sides.bottom /\ g.is_at_actual_bottom THEN 1 ELSE 0 >>

\* draw_box: one of the two vertical borders, in column column
BoxVertical(self, cells, g, border_chars, border_sides, border_color, box_background, enabled, column) ==
    IF ~enabled THEN cells
    ELSE [i \in DOMAIN cells |->
            IF (i % self.width) = column
               /\ (i \div self.width) >= VerticalSpan(g, border_sides)[1]
               /\ (i \div self.width) <= VerticalSpan(g, border_sides)[2]
            THEN BorderCell(self, cells, column, i \div self.width, border_chars[Vertical],
                            border_color, box_background)
            ELSE cells[i]]

\* draw_box that puts every title two columns from the left edge
BoxTitle_at_left(self, cells, g, border_color, box_background, title) ==
    IF ~g.should_draw_title THEN cells
    ELSE draw_text([self EXCEPT !.cells = cells], title[1], g.start_x + 2, g.start_y,
                   border_color, Some(box_background), 0)

\* draw_box: the title, drawn over the top row by draw_text
BoxTitle(self, cells, g, border_color, box_background, title) ==
    IF ~g.should_draw_title THEN cells
    ELSE draw_text([self EXCEPT !.cells = cells], title[1], g.title_start_x, g.start_y,
                   border_color, Some(box_background), 0)

\* OptimizedBuffer::draw_box: the cells of self afterwards
draw_box(self, x, y, w, h, border_chars, border_sides, border_color, box_background, should_fill, title, title_alignment) ==
    Only({ IF g.start_x > g.end_x \/ g.start_y > g.end_y THEN self.cells
           ELSE Only({ BoxTitle(self, right, g, border_color, box_background, title) :
               right \in { BoxVertical(self, left, g, border_chars, border_sides, border_color,
                                       box_background,
                                       border_sides.right /\ g.is_at_actual_right, g.end_x) :
               left \in { BoxVertical(self, bottom, g, border_chars, border_sides,
                                      border_color, box_background,
                                      border_sides.left /\ g.is_at_actual_left, g.start_x) :
               bottom \in { BoxBottom(self, top, g, border_chars, border_sides, border_color,
                                      box_background) :
               top \in { BoxTop(self, filled, g, border_chars, border_sides, border_color,
                                box_background) :
               filled \in { BoxFill(self, g, border_sides, box_background,
                                    should_fill) } } } } } }) :
           g \in { BoxGeometry(self, x, y, w, h, border_sides, title, title_alignment) } })

\* the 16 quadrant glyphs, QUADRANT_CHARS[mask + 1]: space, the block quadrants and half
\* blocks, FULL BLOCK last
QUADRANT_CHARS ==
    << 32, 9623, 9622, 9604, 9629, 9616, 9630, 9631, 9624, 9626, 9612, 9625, 9600, 9628,
       9627, 9608 >>

\* get_pixel_color: the colour of the four bytes at idx of data, transparent magenta where
\* they lie past data_len.  A byte b is the component b / 255
get_pixel_color(idx, data, data_len, bgra) ==
    IF idx + 3 >= data_len THEN << ColorOne, 0, ColorOne, 0 >>
    ELSE IF bgra
    THEN << (data[idx + 3] * ColorOne) \div 255, (data[idx + 2] * ColorOne) \div 255,
            (data[idx + 1] * ColorOne) \div 255, (data[idx + 4] * ColorOne) \div 255 >>
    ELSE << (data[idx + 1] * ColorOne) \div 255, (data[idx + 2] * ColorOne) \div 255,
            (data[idx + 3] * ColorOne) \div 255, (data[idx + 4] * ColorOne) \div 255 >>

\* the squared distance of two colours in red, green and blue
color_distance(a, b) ==
    Mul(Abs(a[1] - b[1]), Abs(a[1] - b[1])) + Mul(Abs(a[2] - b[2]), Abs(a[2] - b[2]))
    + Mul(Abs(a[3] - b[3]), Abs(a[3] - b[3]))

\* closest_color_index that gives a pixel as far from one candidate as from the other to
\* the second
closest_color_index_strict(pixel, candidates) ==
    IF color_distance(pixel, candidates[1]) < color_distance(pixel, candidates[2])
    THEN 0 ELSE 1

closest_color_index(pixel, candidates) ==
    IF color_distance(pixel, candidates[1]) <= color_distance(pixel, candidates[2])
    THEN 0 ELSE 1

average_color_rgba(pixels) ==
    IF Len(pixels) = 0 THEN << 0, 0, 0, 0 >>
    ELSE << (pixels[1][1] + pixels[2][1] + pixels[3][1] + pixels[4][1]) \div Len(pixels),
            (pixels[1][2] + pixels[2][2] + pixels[3][2] + pixels[4][2]) \div Len(pixels),
            (pixels[1][3] + pixels[2][3] + pixels[3][3] + pixels[4][3]) \div Len(pixels),
            (pixels[1][4] + pixels[2][4] + pixels[3][4] + pixels[4][4]) \div Len(pixels) >>

luminance(color) == Mul(212600, color[1]) + Mul(715200, color[2]) + Mul(72200, color[3])

\* render_quadrant_block, step 1: the pairs i < j in the order the loops visit them
PixelPairs == << << 1, 2 >>, << 1, 3 >>, << 1, 4 >>, << 2, 3 >>, << 2, 4 >>, << 3, 4 >> >>

\* the most different pair << p_idx_a, p_idx_b, max_dist >> after the pairs from k on
RECURSIVE MostDifferentPair(_, _, _)
MostDifferentPair(pixels, k, best) ==
    IF k > Len(PixelPairs) THEN best
    ELSE MostDifferentPair(pixels, k + 1,
             IF color_distance(pixels[PixelPairs[k][1]], pixels[PixelPairs[k][2]]) > best[3]
             THEN << PixelPairs[k][1], PixelPairs[k][2],
                     color_distance(pixels[PixelPairs[k][1]], pixels[PixelPairs[k][2]]) >>
             ELSE best)

\* a choice that takes the candidate of the greater luminance for the dark colour
ChosenColors_lighter_first(pixels) ==
    LET pair == MostDifferentPair(pixels, 1, << 1, 2, color_distance(pixels[1], pixels[2]) >>)
        p_cand_a == pixels[pair[1]]
        p_cand_b == pixels[pair[2]]
    IN  IF luminance(p_cand_a) <= luminance(p_cand_b) THEN << p_cand_b, p_cand_a >>
        ELSE << p_cand_a, p_cand_b >>

\* render_quadrant_block, step 2: << chosen_dark_color, chosen_light_color >>
ChosenColors(pixels) ==
    LET pair == MostDifferentPair(pixels, 1, << 1, 2, color_distance(pixels[1], pixels[2]) >>)
        p_cand_a == pixels[pair[1]]
        p_cand_b == pixels[pair[2]]
    IN  IF luminance(p_cand_a) <= luminance(p_cand_b) THEN << p_cand_a, p_cand_b >>
        ELSE << p_cand_b, p_cand_a >>

\* a classification that takes the pixels nearer to the light colour for the dark ones
quadrant_bits_of_light(pixels) ==
    LET bit(i, v) == IF closest_color_index(pixels[i], ChosenColors(pixels)) = 1 THEN v ELSE 0
    IN  bit(1, 8) + bit(2, 4) + bit(3, 2) + bit(4, 1)

\* render_quadrant_block, step 3: the mask, TL = 8, TR = 4, BL = 2, BR = 1, of the pixels
\* nearer to the dark colour
quadrant_bits(pixels) ==
    LET bit(i, v) == IF closest_color_index(pixels[i], ChosenColors(pixels)) = 0 THEN v ELSE 0
    IN  bit(1, 8) + bit(2, 4) + bit(3, 2) + bit(4, 1)

\* render_quadrant_block: the QuadrantResult of four pixels TL, TR, BL, BR
render_quadrant_block(pixels) ==
    IF quadrant_bits(pixels) = 0
    THEN [ char |-> 32, fg |-> ChosenColors(pixels)[1], bg |-> average_color_rgba(pixels) ]
    ELSE IF quadrant_bits(pixels) = 15
    THEN [ char |-> QUADRANT_CHARS[15 + 1], fg |-> average_color_rgba(pixels),
           bg |-> ChosenColors(pixels)[2] ]
    ELSE [ char |-> QUADRANT_CHARS[quadrant_bits(pixels) + 1], fg |-> ChosenColors(pixels)[1],
           bg |-> ChosenColors(pixels)[2] ]

\* draw_super_sample_buffer: the four pixels TL, TR, BL, BR of cell (x_cell, y_cell)
CellPixels(x_cell, y_cell, pos_x, pos_y, pixel_data, len, format, aligned_bytes_per_row) ==
    LET render_x == (x_cell - pos_x) * 2
        render_y == (y_cell - pos_y) * 2
        tl_index == render_y * aligned_bytes_per_row + render_x * 4
        bl_index == (render_y + 1) * aligned_bytes_per_row + render_x * 4
    IN  << get_pixel_color(tl_index, pixel_data, len, format = 0),
           get_pixel_color(tl_index + 4, pixel_data, len, format = 0),
           get_pixel_color(bl_index, pixel_data, len, format = 0),
           get_pixel_color(bl_index + 4, pixel_data, len, format = 0) >>

\* OptimizedBuffer::draw_super_sample_buffer: the cells of self afterwards.  Every cell from
\* (pos_x, pos_y) to the last one of the grid gets the quadrant of its four pixels
draw_super_sample_buffer(self, pos_x, pos_y, pixel_data, len, format, aligned_bytes_per_row) ==
    [i \in DOMAIN self.cells |->
        IF (i % self.width) >= pos_x /\ (i \div self.width) >= pos_y
        THEN Only({ StoredCell(self.cells[i], q.char, q.fg, q.bg, 0) :
                 q \in { render_quadrant_block(
                             CellPixels(i % self.width, i \div self.width, pos_x, pos_y,
                                        pixel_data, len, format, aligned_bytes_per_row)) } })
        ELSE self.cells[i]]

\* a sanitising that leaves out the test of the range of code points
SanitizedChar_without_range_check(char) ==
    IF char < 32 \/ (char > 126 /\ char < 9600) THEN BLOCK_CHAR ELSE char

\* draw_packed_buffer: the code point handed on for the code point char of a record
SanitizedChar(char) ==
    LET in_range == IF char = 0 \/ char > MAX_UNICODE_CODEPOINT THEN DEFAULT_SPACE_CHAR
                    ELSE char
    IN  IF in_range < 32 \/ (in_range > 126 /\ in_range < 9600) THEN BLOCK_CHAR
        ELSE in_range

\* the records i of data that draw_packed_buffer stores at cell (x, y): those whose cell is
\* inside both the terminal size given and the grid
RecordsAt(self, x, y, data_len, pos_x, pos_y, terminal_width_cells, terminal_height_cells) ==
    { i \in 0 .. ((data_len \div CELL_RESULT_SIZE) - 1) :
        /\ pos_x + (i % terminal_width_cells) = x
        /\ pos_y + (i \div terminal_width_cells) = y
        /\ x < terminal_width_cells /\ y < terminal_height_cells
        /\ x < self.width /\ y < self.height }

\* OptimizedBuffer::draw_packed_buffer: the cells of self afterwards.  data holds the
\* records << bg, fg, char >>; a record is stored by set_cell_with_alpha_blending with no
\* attributes.  No two records go to one cell
draw_packed_buffer(self, data, data_len, pos_x, pos_y, terminal_width_cells, terminal_height_cells) ==
    [idx \in DOMAIN self.cells |->
        IF RecordsAt(self, idx % self.width, idx \div self.width, data_len, pos_x, pos_y,
                     terminal_width_cells, terminal_height_cells) = { }
        THEN self.cells[idx]
        ELSE Only({ StoredCell(self.cells[idx], SanitizedChar(data[i + 1][3]),
                               data[i + 1][2], data[i + 1][1], 0) :
                    i \in RecordsAt(self, idx % self.width, idx \div self.width, data_len,
                                    pos_x, pos_y, terminal_width_cells,
                                    terminal_height_cells) })]

\* OptimizedBuffer::resize: the grid afterwards and the result.  New arrays are made of
\* zeroes and the overlap of the old and the new grid is copied into them
resize(self, w, h) ==
    IF w = 0 \/ h = 0
    THEN [ grid |-> self, result |-> Err("InvalidDimensions") ]
    ELSE [ grid |->
             [ cells |->
                 [i \in 0 .. (w * h - 1) |->
                    IF i % w < Min(w, self.width)
                       /\ i \div w < Min(h, self.height)
                    THEN self.cells[(i \div w) * self.width + (i % w)]
                    ELSE Cell(0, TRANSPARENT, TRANSPARENT, 0)],
               height |-> h, respect_alpha |-> self.respect_alpha, width |-> w ],
           result |-> Ok(<< >>) ]

-----------------------------------------------------------------------------
(* The writer thread and the handshake of a threaded render *)

\* set_use_thread(true): spawn the writer
StartThread ==
    /\ m_pc = "idle"
    /\ "set_use_thread" \in scenario.ops
    /\ ~use_thread
    /\ IF ~render_thread
       THEN /\ render_thread' = TRUE
            /\ w_pc' = "lock"
            /\ use_thread' = TRUE
       ELSE UNCHANGED <<render_thread, w_pc, use_thread>>
    /\ UNCHANGED <<asideVars, shellVars, hitVars, seenVars, render_requested, should_terminate,
                   render_in_progress, render_request, mutex, m_pc, m_notified, w_notified,
                   m_frame, w_request, stdout>>

\* set_use_thread(false): should_terminate.store(true)
StopThread ==
    /\ m_pc = "idle"
    /\ use_thread
    /\ IF render_thread
       THEN /\ should_terminate' = TRUE
            /\ m_pc' = "s_notify"
            /\ UNCHANGED use_thread
       ELSE /\ use_thread' = FALSE
            /\ UNCHANGED <<should_terminate, m_pc>>
    /\ UNCHANGED <<asideVars, shellVars, hitVars, seenVars, render_thread, render_requested,
                   render_in_progress, render_request, mutex, w_pc, m_notified, w_notified,
                   m_frame, w_request, stdout>>

\* render_condition.notify_all() of set_use_thread(false), of destroy and of drop
StopNotify ==
    /\ m_pc \in {"s_notify", "d_notify", "x_notify"}
    /\ NotifyAll
    /\ m_pc' = (IF m_pc = "s_notify" THEN "s_join"
               ELSE IF m_pc = "d_notify" THEN "d_join" ELSE "x_join")
    /\ UNCHANGED <<asideVars, shellVars, hitVars, seenVars, use_thread, render_thread, render_requested,
                   should_terminate, render_in_progress, render_request, mutex, w_pc,
                   m_frame, w_request, stdout>>

\* handle.join() returns once the writer has left render_thread_fn
StopJoin ==
    /\ m_pc \in {"s_join", "d_join", "x_join"}
    /\ w_pc = "exited"
    /\ render_thread' = FALSE
    /\ w_pc' = "none"
    /\ IF m_pc = "s_join"
       THEN /\ should_terminate' = FALSE
            /\ use_thread' = FALSE
            /\ m_pc' = "idle"
       ELSE /\ m_pc' = (IF m_pc = "d_join" THEN "destroyed" ELSE "dropped")
            /\ UNCHANGED <<should_terminate, use_thread>>
    /\ UNCHANGED <<asideVars, shellVars, hitVars, seenVars, render_requested, render_in_progress,
                   render_request, mutex, m_notified, w_notified, m_frame, w_request, stdout>>

\* what disable_mouse writes: nothing when mouse tracking is off
DisableMouseOutput ==
    IF ~mouse_enabled THEN << >>
    ELSE << PrivateMode(1000, FALSE),      \* DISABLE_MOUSE_TRACKING
            PrivateMode(1002, FALSE),      \* DISABLE_BUTTON_EVENT_TRACKING
            PrivateMode(1003, FALSE),      \* DISABLE_ANY_EVENT_TRACKING
            PrivateMode(1006, FALSE) >>    \* DISABLE_SGR_MOUSE_MODE

\* perform_shutdown_sequence(use_alternate_screen) between disable_mouse and the first
\* show-cursor: the branch is chosen by the argument of destroy
ShutdownOutput(alt) ==
    IF alt
    THEN << SWITCH_TO_MAIN_SCREEN, RESET, RESET_CURSOR_COLOR, RESTORE_CURSOR_STATE,
            DEFAULT_CURSOR_STYLE >>
    ELSE write_move_to(1, inline_state.start_row + lines_rendered)
         \o << Byte(NEWLINE), RESET_CURSOR_COLOR, DEFAULT_CURSOR_STYLE >>

enable_mouse(enable_movement) ==
    /\ m_pc = "idle"
    /\ "enable_mouse" \in scenario.ops
    /\ IF mouse_enabled
       THEN UNCHANGED mouseVars
       ELSE /\ mouse_enabled' = TRUE
            /\ mouse_movement_enabled' = enable_movement
            /\ stdout_direct' = << PrivateMode(1006, TRUE),     \* ENABLE_SGR_MOUSE_MODE
                                   PrivateMode(1000, TRUE),     \* ENABLE_MOUSE_TRACKING
                                   IF enable_movement
                                   THEN PrivateMode(1003, TRUE) \* ENABLE_ANY_EVENT_TRACKING
                                   ELSE PrivateMode(1002, TRUE) >>
    /\ UNCHANGED <<textVars, drawVars, shellVars, hitVars, threadVars, seenVars>>

disable_mouse ==
    /\ m_pc = "idle"
    /\ "disable_mouse" \in scenario.ops
    /\ IF ~mouse_enabled
       THEN UNCHANGED mouseVars
       ELSE /\ mouse_enabled' = FALSE
            /\ mouse_movement_enabled' = FALSE
            /\ stdout_direct' = DisableMouseOutput
    /\ UNCHANGED <<textVars, drawVars, shellVars, hitVars, threadVars, seenVars>>

\* destroy(alt): perform_shutdown_sequence up to the first show-cursor and its flush
destroy(alt) ==
    /\ m_pc = "idle"
    /\ "destroy" \in scenario.ops
    /\ mouse_enabled' = FALSE
    /\ mouse_movement_enabled' = FALSE
    /\ stdout_direct' = DisableMouseOutput \o ShutdownOutput(alt) \o << SHOW_CURSOR >>
    /\ stdout' = Append(stdout, <<0, 1>>)
    /\ m_pc' = "d_show"
    /\ UNCHANGED <<textVars, drawVars, shellVars, hitVars, seenVars, use_thread, render_thread,
                   render_requested, should_terminate, render_in_progress, render_request,
                   mutex, w_pc, m_notified, w_notified, m_frame, w_request>>

\* destroy: the second show-cursor, then the writer is told to stop
DestroyShowAgain ==
    /\ m_pc = "d_show"
    /\ stdout_direct' = Append(stdout_direct, SHOW_CURSOR)
    /\ stdout' = Append(stdout, <<0, 2>>)
    /\ IF render_thread
       THEN /\ should_terminate' = TRUE
            /\ m_pc' = "d_notify"
       ELSE /\ m_pc' = "destroyed"
            /\ UNCHANGED should_terminate
    /\ UNCHANGED <<textVars, drawVars, mouse_enabled, mouse_movement_enabled, shellVars,
                   hitVars, seenVars, use_thread, render_thread, render_requested,
                   render_in_progress, render_request, mutex, w_pc, m_notified, w_notified,
                   m_frame, w_request>>

\* impl Drop: the grids are freed and the writer told to stop; nothing is written, the
\* last flush finds stdout_writer empty
drop ==
    /\ m_pc \in {"idle", "destroyed"}
    /\ "drop" \in scenario.ops
    /\ IF render_thread
       THEN /\ should_terminate' = TRUE
            /\ m_pc' = "x_notify"
       ELSE /\ m_pc' = "dropped"
            /\ UNCHANGED should_terminate
    /\ UNCHANGED <<asideVars, shellVars, hitVars, seenVars, use_thread, render_thread,
                   render_requested, render_in_progress, render_request, mutex, w_pc,
                   m_notified, w_notified, m_frame, w_request, stdout>>

\* render, threaded: render_mutex.lock()
RenderLock ==
    /\ m_pc = "r_lock"
    /\ mutex = "free"
    /\ mutex' = "main"
    /\ m_pc' = "r_check"
    /\ UNCHANGED <<asideVars, shellVars, hitVars, seenVars, use_thread, render_thread, render_requested,
                   should_terminate, render_in_progress, render_request, w_pc, m_notified,
                   w_notified, m_frame, w_request, stdout>>

\* render, threaded: the predicate of wait_while says wait
RenderMustWait ==
    /\ m_pc = "r_check"
    /\ render_in_progress
    /\ m_pc' = "r_wait"
    /\ UNCHANGED <<asideVars, shellVars, hitVars, seenVars, use_thread, render_thread, render_requested,
                   should_terminate, render_in_progress, render_request, mutex, w_pc,
                   m_notified, w_notified, m_frame, w_request, stdout>>

\* Condvar::wait: the mutex is released and the thread sleeps
RenderSleep ==
    /\ m_pc = "r_wait"
    /\ mutex' = "free"
    /\ m_pc' = "r_sleeping"
    /\ m_notified' = FALSE
    /\ UNCHANGED <<asideVars, shellVars, hitVars, seenVars, use_thread, render_thread, render_requested,
                   should_terminate, render_in_progress, render_request, w_pc, w_notified,
                   m_frame, w_request, stdout>>

\* woken by a notify_all: the mutex is taken again and the predicate re-read
RenderWake ==
    /\ m_pc = "r_sleeping"
    /\ m_notified
    /\ mutex = "free"
    /\ mutex' = "main"
    /\ m_pc' = "r_check"
    /\ UNCHANGED <<asideVars, shellVars, hitVars, seenVars, use_thread, render_thread, render_requested,
                   should_terminate, render_in_progress, render_request, w_pc, m_notified,
                   w_notified, m_frame, w_request, stdout>>

\* render, threaded: the request is stored, the writer signalled, the buffers swapped
RenderHandOff ==
    /\ m_pc = "r_check"
    /\ ~render_in_progress
    /\ render_request' = Some(m_frame)
    /\ render_requested' = TRUE
    /\ render_in_progress' = TRUE
    /\ NotifyAll
    /\ active_buffer' = Flip(active_buffer)
    /\ mutex' = "free"
    /\ has_rendered_once' = TRUE
    /\ frame_count' = frame_count + 1
    /\ handed_over' = handed_over \cup {m_frame}
    /\ m_pc' = "idle"
    /\ UNCHANGED <<asideVars, scenario, width, height, use_alternate_screen, current_render_buffer,
                   next_render_buffer, background_color, lines_rendered,
                   previous_lines_rendered, inline_state, cursor_visible, output_buffer,
                   hitVars, use_thread, render_thread, should_terminate, w_pc, m_frame,
                   w_request, stdout, next_at_render, current_at_render, force_at_render,
                   lines_at_render, terminal, hits_issued_current, hits_issued_next,
                   sync_rendered, flushes>>

writerUnchanged == <<shellVars, hitVars, seenVars, use_thread, render_thread, m_pc, m_frame>>

\* render_thread_fn: render_mutex.lock()
WriterLock ==
    /\ w_pc = "lock"
    /\ mutex = "free"
    /\ mutex' = "writer"
    /\ w_pc' = "check"
    /\ UNCHANGED <<asideVars, writerUnchanged, render_requested, should_terminate, render_in_progress,
                   render_request, m_notified, w_notified, w_request, stdout>>

\* the predicate of wait_while: !render_requested && !should_terminate
WriterCheck ==
    /\ w_pc = "check"
    /\ w_pc' = (IF ~render_requested /\ ~should_terminate THEN "wait" ELSE "run")
    /\ UNCHANGED <<asideVars, writerUnchanged, render_requested, should_terminate, render_in_progress,
                   render_request, mutex, m_notified, w_notified, w_request, stdout>>

\* Condvar::wait: the mutex is released and the thread sleeps
WriterSleep ==
    /\ w_pc = "wait"
    /\ mutex' = "free"
    /\ w_pc' = "sleeping"
    /\ w_notified' = FALSE
    /\ UNCHANGED <<asideVars, writerUnchanged, render_requested, should_terminate, render_in_progress,
                   render_request, m_notified, w_request, stdout>>

\* woken by a notify_all
WriterWake ==
    /\ w_pc = "sleeping"
    /\ w_notified
    /\ mutex = "free"
    /\ mutex' = "writer"
    /\ w_pc' = "check"
    /\ UNCHANGED <<asideVars, writerUnchanged, render_requested, should_terminate, render_in_progress,
                   render_request, m_notified, w_notified, w_request, stdout>>

\* the writer reads the request but leaves it in the slot, with render_requested set
WriterRun_keeps_request ==
    /\ w_pc = "run"
    /\ IF should_terminate
       THEN /\ w_pc' = "exited"
            /\ mutex' = "free"
            /\ UNCHANGED w_request
       ELSE /\ w_request' = render_request
            /\ w_pc' = (IF render_request # None THEN "write" ELSE "finish")
            /\ UNCHANGED mutex
    /\ UNCHANGED <<asideVars, writerUnchanged, render_requested, render_request, should_terminate,
                   render_in_progress, m_notified, w_notified, stdout>>

\* after the wait: leave on should_terminate, else take the request
WriterRun ==
    /\ w_pc = "run"
    /\ IF should_terminate
       THEN /\ w_pc' = "exited"
            /\ mutex' = "free"
            /\ UNCHANGED <<render_requested, render_request, w_request>>
       ELSE /\ render_requested' = FALSE
            /\ w_request' = render_request
            /\ render_request' = None
            /\ w_pc' = (IF render_request # None THEN "write" ELSE "finish")
            /\ UNCHANGED mutex
    /\ UNCHANGED <<asideVars, writerUnchanged, should_terminate, render_in_progress, m_notified,
                   w_notified, stdout>>

\* stdout_writer.write_all(&request.output_data): the first bytes reach stdout
WriterWrite ==
    /\ w_pc = "write"
    /\ stdout' = Append(stdout, <<w_request[1], 1>>)
    /\ w_pc' = "flush"
    /\ UNCHANGED <<asideVars, writerUnchanged, render_requested, should_terminate, render_in_progress,
                   render_request, mutex, m_notified, w_notified, w_request>>

\* the rest of the frame's bytes, and stdout_writer.flush()
WriterFlush ==
    /\ w_pc = "flush"
    /\ stdout' = Append(stdout, <<w_request[1], 2>>)
    /\ w_pc' = "finish"
    /\ UNCHANGED <<asideVars, writerUnchanged, render_requested, should_terminate, render_in_progress,
                   render_request, mutex, m_notified, w_notified, w_request>>

\* the writer clears render_in_progress without a notify_all
WriterFinish_without_notify ==
    /\ w_pc = "finish"
    /\ render_in_progress' = FALSE
    /\ mutex' = "free"
    /\ w_request' = None
    /\ w_pc' = "lock"
    /\ UNCHANGED <<asideVars, writerUnchanged, render_requested, should_terminate, render_request,
                   stdout, m_notified, w_notified>>

\* render_in_progress.store(false); notify_all; the guard is dropped at the end of the pass
WriterFinish ==
    /\ w_pc = "finish"
    /\ render_in_progress' = FALSE
    /\ NotifyAll
    /\ mutex' = "free"
    /\ w_request' = None
    /\ w_pc' = "lock"
    /\ UNCHANGED <<asideVars, writerUnchanged, render_requested, should_terminate, render_request,
                   stdout>>

-----------------------------------------------------------------------------
(* The host's text buffers *)

FreeHandles == { h \in TextHandles : text_buffers[h] = None }
LiveHandles == TextHandles \ FreeHandles
FirstFree == CHOOSE h \in FreeHandles : \A k \in FreeHandles : h <= k

\* what the host has done with a buffer: the bytes it wrote, how often it then finalized
\* the line table, and whether it did anything else (a write after a finalize included)
FreshLog == [bytes |-> << >>, finalized |-> 0, other |-> FALSE]

\* createTextBuffer: TextBuffer::init(length)
text_init(length) ==
    /\ FreeHandles # {}
    /\ "concat" \in scenario.ops \/ LiveHandles = {}
    /\ \E res \in { TextBuffer_init(length) } :
          /\ text_result' = (IF IsOk(res) THEN Ok(FirstFree) ELSE res)
          /\ IF IsOk(res)
             THEN /\ text_buffers' = [text_buffers EXCEPT ![FirstFree] = Some(res[2])]
                  /\ text_log' = [text_log EXCEPT ![FirstFree] = Some(FreshLog)]
             ELSE UNCHANGED <<text_buffers, text_log>>
    /\ UNCHANGED <<rendererVars, drawVars>>

\* destroyTextBuffer
text_deinit(h) ==
    /\ "deinit" \in scenario.ops
    /\ h \in LiveHandles
    /\ text_buffers' = [text_buffers EXCEPT ![h] = None]
    /\ text_log' = [text_log EXCEPT ![h] = None]
    /\ text_result' = None
    /\ UNCHANGED <<rendererVars, drawVars>>

text_write_chunk(h, text_bytes, fg, bg, attr) ==
    /\ h \in LiveHandles
    /\ text_buffers[h][1].cursor + Len(chars(text_bytes)) <= TextCap
    /\ \E r \in { TextBuffer_write_chunk(text_buffers[h][1], text_bytes, fg, bg, attr) } :
          /\ text_buffers' = [text_buffers EXCEPT ![h] = Some(r.tb)]
          /\ text_result' = r.result
    /\ text_log' = [text_log EXCEPT ![h] =
                      Some([text_log[h][1] EXCEPT
                              !.bytes = IF text_log[h][1].other THEN @ ELSE @ \o text_bytes,
                              !.other = @ \/ text_log[h][1].finalized > 0])]
    /\ UNCHANGED <<rendererVars, drawVars>>

text_set_cell(h, index, cell) ==
    /\ "set_cell" \in scenario.ops
    /\ h \in LiveHandles
    /\ \E r \in { TextBuffer_set_cell(text_buffers[h][1], index, cell.char, cell.fg, cell.bg,
                                      cell.attributes) } :
          /\ text_buffers' = [text_buffers EXCEPT ![h] = Some(r.tb)]
          /\ text_result' = r.result
    /\ text_log' = [text_log EXCEPT ![h] = Some([text_log[h][1] EXCEPT !.other = TRUE])]
    /\ UNCHANGED <<rendererVars, drawVars>>

text_resize(h, new_length) ==
    /\ "resize" \in scenario.ops
    /\ h \in LiveHandles
    /\ \E r \in { TextBuffer_resize(text_buffers[h][1], new_length) } :
          /\ text_buffers' = [text_buffers EXCEPT ![h] = Some(r.tb)]
          /\ text_result' = r.result
    /\ text_log' = [text_log EXCEPT ![h] = Some([text_log[h][1] EXCEPT !.other = TRUE])]
    /\ UNCHANGED <<rendererVars, drawVars>>

text_reset(h) ==
    /\ "reset" \in scenario.ops
    /\ h \in LiveHandles
    /\ text_buffers' = [text_buffers EXCEPT ![h] = Some(TextBuffer_reset(text_buffers[h][1]))]
    /\ text_result' = None
    /\ text_log' = [text_log EXCEPT ![h] = Some([text_log[h][1] EXCEPT !.other = TRUE])]
    /\ UNCHANGED <<rendererVars, drawVars>>

text_finalize_line_info(h) ==
    /\ "finalize_line_info" \in scenario.ops
    /\ h \in LiveHandles
    /\ text_log[h][1].finalized < MaxFinalize
    /\ text_buffers' = [text_buffers EXCEPT
                          ![h] = Some(TextBuffer_finalize_line_info(text_buffers[h][1]))]
    /\ text_result' = None
    /\ text_log' = [text_log EXCEPT ![h] = Some([text_log[h][1] EXCEPT !.finalized = @ + 1])]
    /\ UNCHANGED <<rendererVars, drawVars>>

\* textBufferConcat: the new buffer gets a handle of its own
text_concat(a, b, stale) ==
    /\ "concat" \in scenario.ops
    /\ a \in LiveHandles /\ b \in LiveHandles
    /\ FreeHandles # {}
    /\ text_buffers[a][1].cursor + text_buffers[b][1].cursor <= MaxText
    /\ \E res \in { TextBuffer_concat(text_buffers[a][1], text_buffers[b][1], stale) } :
          /\ text_result' = (IF IsOk(res) THEN Ok(FirstFree) ELSE res)
          /\ IF IsOk(res)
             THEN /\ text_buffers' = [text_buffers EXCEPT ![FirstFree] = Some(res[2])]
                  /\ text_log' = [text_log EXCEPT
                                    ![FirstFree] = Some([FreshLog EXCEPT !.other = TRUE])]
             ELSE UNCHANGED <<text_buffers, text_log>>
    /\ UNCHANGED <<rendererVars, drawVars>>

-----------------------------------------------------------------------------
(* The host's grid: the operations of one OptimizedBuffer, each recorded in `call` *)

CallsMade == IF call = None THEN 0 ELSE call[1].n
\* the call before this one, without its own history
Previous == IF call = None THEN None ELSE Some([call[1] EXCEPT !.previous = None])
Called(op, args, result) ==
    Some([ op |-> op, args |-> args, before |-> buffer[1].cells, result |-> result,
           previous |-> Previous, n |-> CallsMade + 1 ])
MayCall(op) == op \in scenario.ops /\ buffer # None /\ CallsMade < DrawDepth
Stored(cells) == Some([buffer[1] EXCEPT !.cells = cells])

buffer_set(x, y, cell) ==
    /\ MayCall("set")
    /\ buffer' = Stored(set(buffer[1].cells, buffer[1].width, buffer[1].height, x, y, cell))
    /\ call' = Called("set", [x |-> x, y |-> y, cell |-> cell], None)
    /\ UNCHANGED <<rendererVars, textVars>>

buffer_set_cell(x, y, cell) ==
    /\ MayCall("set_cell")
    /\ buffer' = Stored(set_cell(buffer[1].cells, buffer[1].width, buffer[1].height, x, y,
                                 cell.char, cell.fg, cell.bg, cell.attributes))
    /\ call' = Called("set_cell", [x |-> x, y |-> y, cell |-> cell], Ok(<< >>))
    /\ UNCHANGED <<rendererVars, textVars>>

buffer_set_cell_with_alpha_blending(x, y, ch, fg, bg, attributes) ==
    /\ MayCall("set_cell_with_alpha_blending")
    /\ buffer' = Stored(set_cell_with_alpha_blending(
                            buffer[1].cells, buffer[1].width, buffer[1].height, x, y,
                            ch, fg, bg, attributes))
    /\ call' = Called("set_cell_with_alpha_blending",
                      [x |-> x, y |-> y, cell |-> Cell(ch, fg, bg, attributes)], Ok(<< >>))
    /\ UNCHANGED <<rendererVars, textVars>>

buffer_get(x, y) ==
    /\ MayCall("get")
    /\ call' = Called("get", [x |-> x, y |-> y],
                      get(buffer[1].cells, buffer[1].width, buffer[1].height, x, y))
    /\ UNCHANGED <<rendererVars, textVars, buffer>>

buffer_clear(bg, char) ==
    /\ MayCall("clear")
    /\ buffer' = Stored(clear(buffer[1].width, buffer[1].height, bg, fill_char(char)))
    /\ call' = Called("clear", [bg |-> bg, char |-> char], Ok(<< >>))
    /\ UNCHANGED <<rendererVars, textVars>>

buffer_draw_text(text, x, y, fg, bg, attributes) ==
    /\ MayCall("draw_text")
    /\ buffer' = Stored(draw_text(buffer[1], text, x, y, fg, bg, attributes))
    /\ call' = Called("draw_text",
                      [ text |-> text, x |-> x, y |-> y, fg |-> fg, bg |-> bg,
                        attributes |-> attributes ], Ok(<< >>))
    /\ UNCHANGED <<rendererVars, textVars>>

buffer_fill_rect(x, y, w, h, bg) ==
    /\ MayCall("fill_rect")
    /\ buffer' = Stored(fill_rect(buffer[1], x, y, w, h, bg))
    /\ call' = Called("fill_rect", [x |-> x, y |-> y, width |-> w, height |-> h, bg |-> bg],
                      Ok(<< >>))
    /\ UNCHANGED <<rendererVars, textVars>>

Sides(s) == [top |-> s[1], right |-> s[2], bottom |-> s[3], left |-> s[4]]

buffer_draw_box(x, y, w, h, border_chars, sides, border_color, box_background, should_fill, title, title_alignment) ==
    /\ MayCall("draw_box")
    /\ buffer' = Stored(draw_box(buffer[1], x, y, w, h, border_chars, Sides(sides),
                                 border_color, box_background, should_fill, title,
                                 title_alignment))
    /\ call' = Called("draw_box",
                      [ x |-> x, y |-> y, width |-> w, height |-> h,
                        border_chars |-> border_chars, border_sides |-> Sides(sides),
                        border_color |-> border_color, background_color |-> box_background,
                        should_fill |-> should_fill, title |-> title,
                        title_alignment |-> title_alignment ], Ok(<< >>))
    /\ UNCHANGED <<rendererVars, textVars>>

\* the bytes of an image of pattern pattern in pixels a and b, row after row, four bytes
\* a pixel
PixelData(pattern, a, b, size) ==
    LET first(px, py) ==
            CASE pattern = "checker" -> (px + py) % 2 = 0
              [] pattern = "mirrored" -> (px + py + (px \div 2)) % 2 = 0
              [] pattern = "columns" -> px % 2 = 0
              [] pattern = "corner" -> px % 2 = 0 /\ py % 2 = 0
              [] OTHER -> py % 2 = 0
    IN  [k \in 1 .. (size[1] * size[2] * 4) |->
            IF first(((k - 1) \div 4) % size[1], ((k - 1) \div 4) \div size[1])
            THEN a[((k - 1) % 4) + 1] ELSE b[((k - 1) % 4) + 1]]

buffer_draw_super_sample_buffer(pos_x, pos_y, pattern, a, b, size, format) ==
    /\ MayCall("draw_super_sample_buffer")
    /\ buffer' = Stored(draw_super_sample_buffer(buffer[1], pos_x, pos_y,
                                                 PixelData(pattern, a, b, size),
                                                 size[1] * size[2] * 4, format, size[1] * 4))
    /\ call' = Called("draw_super_sample_buffer",
                      [ pos_x |-> pos_x, pos_y |-> pos_y,
                        pixel_data |-> PixelData(pattern, a, b, size),
                        len |-> size[1] * size[2] * 4, format |-> format,
                        aligned_bytes_per_row |-> size[1] * 4 ], Ok(<< >>))
    /\ UNCHANGED <<rendererVars, textVars>>

\* the records handed over: the first of code point char, then 'B', 'C' and 'D', all
\* white on bg
PackedData(char, bg) ==
    << << bg, WHITE, char >>, << bg, WHITE, 66 >>, << bg, WHITE, 67 >>, << bg, WHITE, 68 >> >>

buffer_draw_packed_buffer(char, bg, data_len, pos_x, pos_y, terminal_width_cells, terminal_height_cells) ==
    /\ MayCall("draw_packed_buffer")
    /\ buffer' = Stored(draw_packed_buffer(buffer[1], PackedData(char, bg), data_len, pos_x,
                                           pos_y, terminal_width_cells,
                                           terminal_height_cells))
    /\ call' = Called("draw_packed_buffer",
                      [ data |-> PackedData(char, bg), data_len |-> data_len,
                        pos_x |-> pos_x, pos_y |-> pos_y,
                        terminal_width_cells |-> terminal_width_cells,
                        terminal_height_cells |-> terminal_height_cells ], Ok(<< >>))
    /\ UNCHANGED <<rendererVars, textVars>>

buffer_resize(w, h) ==
    /\ MayCall("resize")
    /\ buffer' = Some(resize(buffer[1], w, h).grid)
    /\ call' = Called("resize",
                      [ width |-> w, height |-> h,
                        old_width |-> buffer[1].width, old_height |-> buffer[1].height ],
                      resize(buffer[1], w, h).result)
    /\ UNCHANGED <<rendererVars, textVars>>

buffer_draw_frame_buffer(dest_x, dest_y, source, src_x, src_y, src_width, src_height) ==
    /\ MayCall("draw_frame_buffer")
    /\ buffer' = Stored(draw_frame_buffer(buffer[1], dest_x, dest_y, source,
                                          src_x, src_y, src_width, src_height))
    /\ call' = Called("draw_frame_buffer",
                      [ dest_x |-> dest_x, dest_y |-> dest_y, source |-> source,
                        src_x |-> src_x, src_y |-> src_y,
                        src_width |-> src_width, src_height |-> src_height ], None)
    /\ UNCHANGED <<rendererVars, textVars>>

-----------------------------------------------------------------------------
(* Specifications *)

FrameInputs == [DOMAIN next_render_buffer -> scenario.cells]

Next ==
    \/ \E drawn \in FrameInputs, force \in BOOLEAN : render(drawn, force)
    \/ \E lines \in 0 .. MaxLines : set_lines_rendered(lines)
    \/ \E rgba \in BackgroundInputs : set_background_color(rgba)
    \/ \E visible \in BOOLEAN : set_cursor_position(visible)
    \/ \E x \in HitColumns, w \in HitWidths, yh \in HitRows, id \in HitIds :
          add_to_hit_grid(x, yh[1], w, yh[2], id)
    \/ StartThread
    \/ StopThread
    \/ StopNotify
    \/ StopJoin
    \/ \E enable_movement \in BOOLEAN : enable_mouse(enable_movement)
    \/ disable_mouse
    \/ \E alt \in BOOLEAN : destroy(alt)
    \/ DestroyShowAgain
    \/ drop
    \/ RenderLock
    \/ RenderMustWait
    \/ RenderSleep
    \/ RenderWake
    \/ RenderHandOff
    \/ WriterLock
    \/ WriterCheck
    \/ WriterSleep
    \/ WriterWake
    \/ WriterRun
    \/ WriterWrite
    \/ WriterFlush
    \/ WriterFinish

Spec == Init /\ [][Next]_vars

InitText ==
    /\ scenario \in TextScenarios
    /\ create
    /\ TextIdle
    /\ DrawIdle

NextText ==
    \/ \E length \in TextLengths : text_init(length)
    \/ \E h \in TextHandles : text_deinit(h)
    \/ \E h \in TextHandles, chunk \in TextChunks :
          text_write_chunk(h, chunk[1], chunk[2][1], chunk[2][2], chunk[2][3])
    \/ \E h \in TextHandles, index \in TextIndexes, cell \in AlphaOne :
          text_set_cell(h, index, cell)
    \/ \E h \in TextHandles, new_length \in TextLengths : text_resize(h, new_length)
    \/ \E h \in TextHandles : text_reset(h)
    \/ \E h \in TextHandles : text_finalize_line_info(h)
    \/ \E a \in TextHandles, b \in TextHandles, stale \in StaleCells : text_concat(a, b, stale)

\* The renderer with its writer thread under fair scheduling: the host calls only render
\* and set_use_thread; a thread that can take its next step takes it
InitLive ==
    /\ scenario = Scn(1, 1, TRUE, AlphaOne, {"set_use_thread"})
    /\ create
    /\ TextIdle
    /\ DrawIdle

\* a step of render_thread_fn, and a step of a threaded render
WriterStep ==
    \/ WriterLock \/ WriterCheck \/ WriterSleep \/ WriterWake
    \/ WriterRun \/ WriterWrite \/ WriterFlush \/ WriterFinish
MainStep == RenderLock \/ RenderMustWait \/ RenderSleep \/ RenderWake \/ RenderHandOff

NextLive ==
    \/ \E drawn \in FrameInputs, force \in BOOLEAN : render(drawn, force)
    \/ StartThread
    \/ StopThread
    \/ StopNotify
    \/ StopJoin
    \/ RenderLock
    \/ RenderMustWait
    \/ RenderSleep
    \/ RenderWake
    \/ RenderHandOff
    \/ WriterLock
    \/ WriterCheck
    \/ WriterSleep
    \/ WriterWake
    \/ WriterRun
    \/ WriterWrite
    \/ WriterFlush
    \/ WriterFinish

FairThreads == WF_vars(MainStep) /\ WF_vars(WriterStep)

SpecLive == InitLive /\ [][NextLive]_vars /\ FairThreads


\* The renderer under resize: the host resizes, registers hit rectangles and renders
ResizeScenarios == { Scn(2, 1, TRUE, AlphaOne, {"resize", "add_to_hit_grid"}) }
ResizeSizes == 0 .. MaxSide
ResizeHitOrigins == 0 .. (MaxSide - 1)
ResizeHitSizes == { U32(0, MaxSide) }
ResizeHitIds == { 7 }

InitResize ==
    /\ scenario \in ResizeScenarios
    /\ create
    /\ TextIdle
    /\ DrawIdle

NextResize ==
    \/ \E w \in ResizeSizes, h \in ResizeSizes : renderer_resize(w, h)
    \/ \E x \in ResizeHitOrigins, y \in ResizeHitOrigins, w \in ResizeHitSizes,
          h \in ResizeHitSizes, id \in ResizeHitIds : add_to_hit_grid(x, y, w, h, id)
    \/ \E drawn \in FrameInputs, force \in BOOLEAN : render(drawn, force)

SpecResize == InitResize /\ [][NextResize]_vars

SpecText == InitText /\ [][NextText]_vars

InitDraw ==
    /\ scenario \in DrawScenarios
    /\ create
    /\ TextIdle
    /\ DrawReady

NextDraw ==
    \/ \E x \in DrawCoords, y \in DrawCoords, cell \in scenario.cells : buffer_set(x, y, cell)
    \/ \E x \in DrawCoords, y \in DrawCoords, cell \in scenario.cells :
          buffer_set_cell(x, y, cell)
    \/ \E x \in DrawCoords, y \in DrawCoords, ch \in DrawChars, fg \in DrawFgs,
          bg \in DrawBgs, attributes \in DrawAttributes :
          buffer_set_cell_with_alpha_blending(x, y, ch, fg, bg, attributes)
    \/ \E x \in DrawCoords, y \in DrawCoords : buffer_get(x, y)
    \/ \E bg \in ClearBgs, char \in ClearChars : buffer_clear(bg, char)
    \/ \E dest_x \in DestXs, dest_y \in DestYs, source \in Sources, src_x \in SrcXs,
          src_y \in SrcYs, src_width \in SrcWidths, src_height \in SrcHeights :
          buffer_draw_frame_buffer(dest_x, dest_y, source, src_x, src_y, src_width, src_height)
    \/ \E w \in ResizeDims, h \in ResizeDims : buffer_resize(w, h)
    \/ /\ MayCall("draw_box")
       /\ \E box \in Boxes, sides \in BoxSides, border_color \in BorderColors,
          box_background \in BoxBackgrounds, should_fill \in BOOLEAN, title \in Titles,
          title_alignment \in TitleAlignments :
          buffer_draw_box(box[1], box[2], box[3], box[4], STANDARD_CHARS, sides, border_color,
                          box_background, should_fill, title, title_alignment)
    \/ /\ MayCall("draw_super_sample_buffer")
       /\ \E pos_x \in SamplePositions, pos_y \in SamplePositions,
             pattern \in PixelPatterns, a \in PixelBytes, b \in PixelBytes,
             size \in ImageSizes, format \in SampleFormats :
             buffer_draw_super_sample_buffer(pos_x, pos_y, pattern, a, b, size, format)
    \/ /\ MayCall("draw_packed_buffer")
       /\ \E char \in PackedChars, bg \in PackedBgs, data_len \in PackedLens,
             pos_x \in PackedPositions, pos_y \in PackedPositions,
             terminal_width_cells \in PackedWidths, terminal_height_cells \in PackedHeights :
             buffer_draw_packed_buffer(char, bg, data_len, pos_x, pos_y,
                                       terminal_width_cells, terminal_height_cells)
    \/ \E text \in Texts, x \in TextXs, fg \in TextFgs, bg \in TextBgs,
          attributes \in DrawAttributes : buffer_draw_text(text, x, 0, fg, bg, attributes)
    \/ \E rect \in Rects, bg \in FillBgs :
          buffer_fill_rect(rect[1], rect[2], rect[3], rect[4], bg)

SpecDraw == InitDraw /\ [][NextDraw]_vars

-----------------------------------------------------------------------------
(* Properties *)

\* The step is a call of render: the frame is prepared in it
IsRender == m_pc = "idle" /\ (frame_count' = frame_count + 1 \/ m_pc' = "r_lock")

\* Some frame has been prepared
Rendered == output_buffer # << >>

Cells == 0 .. (width * height - 1)

\* The host draws only width-1 printable characters
PrintableInputs ==
    \A c \in scenario.cells :
        c.char # WIDE_CHAR_CONTINUATION /\ codepoint_display_width(c.char) = 1

\* Two colours of the host's cells are different and less than epsilon apart
NearColours ==
    \E c, d \in scenario.cells :
        \/ c.fg # d.fg /\ rgba_equal(c.fg, d.fg, COLOR_EPSILON_DEFAULT)
        \/ c.bg # d.bg /\ rgba_equal(c.bg, d.bg, COLOR_EPSILON_DEFAULT)

BytesNear(a, b) == \A k \in 1 .. 3 : Abs(a[k] - b[k]) <= 1

RECURSIVE FramesOf(_)
FramesOf(log) ==
    IF log = << >> THEN << >>
    ELSE (IF log[1][1] = 0 THEN << >> ELSE << log[1] >>) \o FramesOf(Tail(log))

\* C2: with the writer thread enabled for every render, all parts of frame N reach
\* stdout before any part of frame N+1, and no part of a frame reaches it twice.
C2_FramesInOrder ==
    ~sync_rendered
        => LET log == FramesOf(stdout)
           IN  \A i, j \in 1 .. Len(log) :
                  i < j => \/ log[i][1] < log[j][1]
                           \/ log[i][1] = log[j][1] /\ log[i][2] < log[j][2]

\* Two frames were handed to the writer and both are written
C2_Witness ==
    /\ ~sync_rendered
    /\ handed_over = {1, 2}
    /\ FramesOf(stdout) = << <<1, 1>>, <<1, 2>>, <<2, 1>>, <<2, 2>> >>

NoCellOutput(out) ==
    \A n \in 1 .. Len(out) :
        /\ out[n].k \notin {"fg", "bg", "byte", "erase_line", "erase_down"}
        /\ out[n].k = "sgr" => out[n].a = 0

\* hide-cursor, the final SGR reset, and the cursor epilogue of alternate-screen mode
QuietFrame ==
    << Tok("hide_cursor", 0, 0, 0), Tok("sgr", 0, 0, 0) >>
    \o (IF cursor_visible
        THEN << Tok("cursor_color", 255, 255, 255), Tok("cursor_style", 2, 0, 0),
                Tok("move", 1, 1, 0), Tok("show_cursor", 0, 0, 0) >>
        ELSE << Tok("hide_cursor", 0, 0, 0) >>)

\* The render step is not forced, not the first, and `next` equals `current`
RenderOfEqualGrids ==
    /\ IsRender /\ has_rendered_once /\ ~force_at_render'
    /\ next_at_render' = current_render_buffer

C5_JoinReturns ==
    m_pc \in {"s_join", "d_join"} => (w_pc = "exited" \/ ENABLED WriterStep)

Written(f) == \E n \in 1 .. Len(stdout) : stdout[n] = << f, 2 >>

\* C6: when the writer has exited, every frame a threaded render handed over is
\* written completely, the request slot is empty and both flags are clear.
C6_HandedFramesWritten ==
    (w_pc = "exited" /\ handed_over # {})
        => /\ \A f \in handed_over : Written(f)
           /\ render_request = None
           /\ ~render_requested
           /\ ~render_in_progress

\* The flusher's input at the last render call
RendererAtRender == [RendererWith(next_at_render) EXCEPT !.cur = current_at_render]

\* The row [W, 0xFFFF, X] in one style
WideRow ==
    [i \in 0 .. 2 |->
        Cell(IF i = 0 THEN WIDE ELSE IF i = 1 THEN WIDE_CHAR_CONTINUATION ELSE 88,
             WHITE, BLACK, 0)]

\* The last render drew the row [W, 0xFFFF, X] and every cell of it differs from `current`
WideRowAllChanged ==
    /\ use_alternate_screen /\ width = 3 /\ height = 1 /\ Rendered
    /\ next_at_render = WideRow
    /\ \A i \in Cells : ~CellUnchanged(current_at_render[i], next_at_render[i])

\* C7: for the row [W, 0xFFFF, X], all cells changed and in one style, the frame holds
\* exactly one run, placed at W's column, whose payload is the UTF-8 of W (U+4E16:
\* E4 B8 96) followed by X; the visual column is 2 after W, 2 after the continuation
\* cell and 3 after X.
C7_WideRowOneRun ==
    WideRowAllChanged
        => /\ output_buffer
                = << Tok("hide_cursor", 0, 0, 0),
                     Tok("move", 1, 1, 0), Tok("fg", 255, 255, 255), Tok("bg", 0, 0, 0),
                     Tok("move", 1, 1, 0),
                     Tok("byte", 228, 0, 0), Tok("byte", 184, 0, 0), Tok("byte", 150, 0, 0),
                     Tok("byte", 88, 0, 0),
                     Tok("sgr", 0, 0, 0),
                     Tok("sgr", 0, 0, 0), Tok("hide_cursor", 0, 0, 0) >>
           /\ LET r == RendererAtRender
                  s1 == CellStep(r, FlushInit(r), 0, 0, force_at_render)
                  s2 == CellStep(r, s1, 1, 0, force_at_render)
                  s3 == CellStep(r, s2, 2, 0, force_at_render)
              IN  /\ s1.current_visual_col = 2
                  /\ s2.current_visual_col = 2
                  /\ s3.current_visual_col = 3
                  /\ s3.run_start_visual_col = Some(0)

\* The row was drawn over a different row by a second, non-forced frame
C7_Witness ==
    WideRowAllChanged /\ frame_count = 2 /\ ~force_at_render

\* The flusher's loop state at the start of row y
RowStart(r, y, force_render) ==
    [RowLoop(r, FlushInit(r), 0, y, force_render) EXCEPT
        !.run_start = None, !.run_start_visual_col = None, !.run_length = 0,
        !.run_buffer = << >>, !.current_visual_col = 0]

\* From cell x of row y on, no continuation cell of the row adds a token to the output
RECURSIVE ContinuationsSilent(_, _, _, _, _)
ContinuationsSilent(r, st, x, y, force_render) ==
    \/ x >= r.width
    \/ \A s \in { CellStep(r, st, x, y, force_render) } :
          /\ r.nxt[y * r.width + x].char = WIDE_CHAR_CONTINUATION => s.out = st.out
          /\ ContinuationsSilent(r, s, x + 1, y, force_render)

\* C8: a cell of `next` that holds 0xFFFF appends nothing to the frame's output,
\* wherever it stands in its row and whatever the style of its neighbours.
C8_ContinuationSilent ==
    (use_alternate_screen /\ Rendered)
        => \A y \in 0 .. (height - 1) :
              \A s0 \in { RowStart(RendererAtRender, y, force_at_render) } :
                  ContinuationsSilent(RendererAtRender, s0, 0, y, force_at_render)

\* C9: check_hit(x, y), for (x, y) in range, is the id of the last rectangle covering
\* (x, y) that add_to_hit_grid was given between the two most recent renders, else 0.
C9_CheckHitSeesLastFrame ==
    \A i \in DOMAIN current_hit_grid :
        check_hit(i % hit_grid_width, i \div hit_grid_width) = hits_issued_current[i]

\* C33: after any resize of the renderer, for every (x, y) with x < width and y < height
\* that a rectangle given to add_to_hit_grid before the last render covers, check_hit(x, y)
\* is the id of that rectangle.
C33_HitGridCoversRenderer ==
    \A x \in 0 .. (width - 1), y \in 0 .. (height - 1) :
        hits_issued_current[y * width + x] # 0
            => check_hit(x, y) = hits_issued_current[y * width + x]

\* resize(w, h) returns an error: the size differs from the renderer's and w or h is 0
ResizeFails(w, h) == renderer_resize(w, h) /\ ~(width = w /\ height = h) /\ (w = 0 \/ h = 0)

\* C34: a resize of the renderer that returns an error changes nothing: width and height,
\* both grids and the hit grids are as before the call, and width * height is still the
\* number of cells of each grid.
C34_FailedResizeChangesNothing ==
    [][ \A w \in ResizeSizes, h \in ResizeSizes :
          ResizeFails(w, h)
              => /\ width' = width /\ height' = height
                 /\ UNCHANGED <<current_render_buffer, next_render_buffer, hitVars>>
                 /\ width' * height' = Cardinality(DOMAIN current_render_buffer')
                 /\ width' * height' = Cardinality(DOMAIN next_render_buffer')
      ]_vars

\* C10: in inline mode every render after the first whose lines_rendered is smaller
\* than it was at the render before emits a move to row start_row + lines_rendered + 1,
\* column 1, immediately followed by CSI J.
C10_ShrinkErasesBelow ==
    (~use_alternate_screen /\ frame_count >= 2 /\ lines_at_render[2] < lines_at_render[1])
        => \E n \in 1 .. (Len(output_buffer) - 1) :
              /\ output_buffer[n]
                   = Tok("move", inline_state.start_row + lines_at_render[2] + 1, 1, 0)
              /\ output_buffer[n + 1] = Tok("erase_down", 0, 0, 0)

-----------------------------------------------------------------------------
(* Text fragment buffers *)

TextBufferOf(h) == text_buffers[h][1]

\* C11: for every text buffer, cursor <= capacity and line_starts[0] = 0, in every state
\* that init, write_chunk, set_cell, resize, reset, concat and finalize_line_info reach.
C11_CursorWithinCapacity ==
    \A h \in LiveHandles :
        /\ TextBufferOf(h).cursor <= TextBufferOf(h).length
        /\ TextBufferOf(h).line_starts[1] = 0

NewlinesIn(bytes) == Cardinality({ i \in DOMAIN bytes : bytes[i] = NEWLINE })
EndsInNewline(bytes) == bytes # << >> /\ bytes[Len(bytes)] = NEWLINE
\* a buffer that since init has only been written to, and then finalized once
WrittenAndFinalized(h) ==
    /\ h \in LiveHandles
    /\ ~text_log[h][1].other
    /\ text_log[h][1].finalized = 1

\* C12: after write_chunk calls on a fresh buffer whose text has K newlines and one
\* finalize_line_info, line_starts has K+1 entries and line_widths has K entries if the
\* text ends in a newline and K+1 otherwise (the empty text included).
C12_LineIndexLaw ==
    \A h \in TextHandles :
        WrittenAndFinalized(h) =>
            /\ Len(TextBufferOf(h).line_starts) = NewlinesIn(text_log[h][1].bytes) + 1
            /\ Len(TextBufferOf(h).line_widths) =
                   IF EndsInNewline(text_log[h][1].bytes)
                   THEN NewlinesIn(text_log[h][1].bytes)
                   ELSE NewlinesIn(text_log[h][1].bytes) + 1

\* a finalized buffer of two lines, the second left open
C12_Witness ==
    \E h \in TextHandles :
        /\ WrittenAndFinalized(h)
        /\ NewlinesIn(text_log[h][1].bytes) = 1
        /\ ~EndsInNewline(text_log[h][1].bytes)
        /\ TextBufferOf(h).line_widths = << 1, 1 >>

\* the used cells of a buffer
Payload(tb) ==
    [ length |-> tb.cursor,
      cells |-> [i \in 0 .. (tb.cursor - 1) |->
                   << tb.char[i], tb.fg[i], tb.bg[i], tb.attributes[i] >>] ]

SamePayloadBothWays(a, b, c, stale) ==
    LET ab == TextBuffer_concat(a, b, stale)
        bc == TextBuffer_concat(b, c, stale)
    IN  /\ IsOk(ab)
        /\ IsOk(bc)
        /\ IsOk(TextBuffer_concat(ab[2], c, stale))
        /\ IsOk(TextBuffer_concat(a, bc[2], stale))
        /\ Payload(TextBuffer_concat(ab[2], c, stale)[2])
           = Payload(TextBuffer_concat(a, bc[2], stale)[2])

\* C13: for all text buffers a, b and c, concat(concat(a, b), c) and
\* concat(a, concat(b, c)) both succeed and have the same payload.
C13_ConcatAssociative ==
    \A a \in LiveHandles, b \in LiveHandles, c \in LiveHandles, stale \in StaleCells :
        SamePayloadBothWays(TextBufferOf(a), TextBufferOf(b), TextBufferOf(c), stale)

\* a buffer that since init has only been written to
WrittenOnly(h) ==
    /\ h \in LiveHandles
    /\ ~text_log[h][1].other
    /\ text_log[h][1].finalized = 0

\* a fresh buffer into which text_bytes has been written
WrittenAfresh(text_bytes) ==
    TextBuffer_write_chunk(TextBuffer_init(1)[2], text_bytes, None, None, None).tb

SameLineInfo(tb, single) ==
    /\ tb.line_starts = single.line_starts
    /\ tb.line_widths = single.line_widths
    /\ tb.current_line_width = single.current_line_width

\* C35: for buffers a and b built by write_chunk alone, concat(a, b) has the line_starts,
\* line_widths and current_line_width of one buffer into which the text of a and then
\* the text of b was written.
C35_ConcatKeepsLineInfo ==
    [][ \A a \in TextHandles, b \in TextHandles, stale \in StaleCells :
          (/\ WrittenOnly(a) /\ WrittenOnly(b)
           /\ text_concat(a, b, stale)
           /\ IsOk(text_result'))
              => SameLineInfo(text_buffers'[text_result'[2]][1],
                              WrittenAfresh(text_log[a][1].bytes \o text_log[b][1].bytes))
      ]_vars

\* C36: in every state of a text buffer that write_chunk, finalize_line_info, reset and
\* concat reach, line_widths has at most as many entries as line_starts.
C36_OneWidthPerLine ==
    \A h \in LiveHandles :
        Len(TextBufferOf(h).line_widths) <= Len(TextBufferOf(h).line_starts)

\* what C26 says of a write_chunk of text_bytes that took the buffer of handle h from
\* before to after and returned result
ChunkReturn(before, after, text_bytes, result) ==
    /\ IsOk(result)
    /\ result[2] \div 2 = Len(chars(text_bytes))
    /\ result[2] % 2 = 1 <=> after.length > before.length
    /\ after.cursor = before.cursor + result[2] \div 2
    /\ after.length > before.length <=> before.cursor + Len(chars(text_bytes)) > before.length
    /\ (after.length - before.length) % TEXT_GROWTH = 0
    /\ after.length > before.length => after.length - TEXT_GROWTH < after.cursor

\* C26: write_chunk returns a u32 whose upper 31 bits are the number of scalars written by
\* this call and whose low bit is 1 iff the capacity was grown during this call; the cursor
\* advances by exactly that number of scalars, and the capacity grows only when the cursor
\* has reached it, by 256 at a time
C26_WriteChunkReturn ==
    [][ \A h \in TextHandles, chunk \in TextChunks :
            text_write_chunk(h, chunk[1], chunk[2][1], chunk[2][2], chunk[2][3]) =>
                ChunkReturn(text_buffers[h][1], text_buffers'[h][1], chunk[1], text_result')
      ]_vars

\* "b" and a newline were written to an empty buffer of capacity 1: the second scalar made
\* the buffer grow to 257 cells, the call returned (2 << 1) | 1 and the cursor is at 2
C26_Witness ==
    /\ "finalize_line_info" \in scenario.ops
    /\ text_result = Ok(5)
    /\ \E h \in LiveHandles :
          /\ text_log[h][1].bytes = << 98, NEWLINE >>
          /\ TextBufferOf(h).cursor = 2
          /\ TextBufferOf(h).length = 1 + TEXT_GROWTH

\* two invocations of the flusher read the same `current` and `next`, screen mode,
\* lines_rendered, cursor record and force flag (the render offset is the same in all)
SameStatedInputs(a, b) ==
    /\ a.inputs.cur = b.inputs.cur
    /\ a.inputs.nxt = b.inputs.nxt
    /\ a.inputs.alt = b.inputs.alt
    /\ a.inputs.lines = b.inputs.lines
    /\ a.inputs.cursor = b.inputs.cursor
    /\ a.force = b.force
\* what the flusher reads besides in inline mode: whether a frame has been rendered
\* before, the lines_rendered before the last change, and the inline state (the origin and
\* the colours and attributes the frame before ended with)
SameInlineHistory(a, b) ==
    /\ a.inputs.once = b.inputs.once
    /\ a.inputs.prev_lines = b.inputs.prev_lines
    /\ a.inputs.istate = b.inputs.istate

\* C27 as stated: the byte stream the flusher produces depends only on `current`, `next`
\* and the configuration (screen mode, render offset, lines_rendered, cursor record, force
\* flag): two invocations from equal such inputs produce identical byte streams, whatever
\* frames were rendered earlier
C27_StreamOfStatedInputs ==
    \A i \in DOMAIN flushes, j \in DOMAIN flushes :
        SameStatedInputs(flushes[i], flushes[j]) => flushes[i].out = flushes[j].out

\* C27: two invocations of the flusher from equal `current`, `next`, screen mode, render
\* offset, lines_rendered, cursor record and force flag produce identical byte streams on
\* the alternate screen; in inline mode they do if has_rendered_once,
\* previous_lines_rendered and the inline state are equal too
C27_StreamOfInputsAndHistory ==
    \A i \in DOMAIN flushes, j \in DOMAIN flushes :
        /\ SameStatedInputs(flushes[i], flushes[j])
        /\ flushes[i].inputs.alt \/ SameInlineHistory(flushes[i], flushes[j])
        => flushes[i].out = flushes[j].out

\* the second and the third frame of an inline run drew the same glyph over itself, after
\* a first frame that had drawn it too: equal inputs, equal history, the same bytes, and in
\* them the cell's glyph
C27_Witness ==
    /\ Len(flushes) = 3
    /\ ~flushes[2].inputs.alt
    /\ SameStatedInputs(flushes[2], flushes[3])
    /\ SameInlineHistory(flushes[2], flushes[3])
    /\ flushes[2].inputs.nxt[0].char = 65
    /\ flushes[2].out = flushes[3].out
    /\ \E n \in DOMAIN flushes[3].out : flushes[3].out[n] = Byte(65)

\* current_visual_col when the cell loop of row y reaches cell x; the column does not
\* depend on the colours and the run the loop state carries over from earlier rows
RECURSIVE ColumnAt(_, _, _, _, _, _)
ColumnAt(r, st, k, x, y, force_render) ==
    IF k >= x THEN st.current_visual_col
    ELSE Only({ ColumnAt(r, s, k + 1, x, y, force_render) :
                    s \in { CellStep(r, st, k, y, force_render) } })

ColumnOf(r, x, y, force_render) == ColumnAt(r, FlushInit(r), 0, x, y, force_render)

\* C32: the column at which a non-forced render emits a changed cell is the column at
\* which a forced render of the same grids emits it: a cell skipped as unchanged advances
\* the visual column as much as the same cell advances it when emitted.
C32_SkippedCellsAdvanceAsEmitted ==
    (frame_count >= 2 /\ ~force_at_render)
        => \A x \in 0 .. (width - 1), y \in 0 .. (height - 1) :
              ~CellUnchanged(current_at_render[y * width + x], next_at_render[y * width + x])
                  => ColumnOf(RendererAtRender, x, y, FALSE)
                         = ColumnOf(RendererAtRender, x, y, TRUE)

\* a threaded render is between its call and its return
RenderPending == m_pc \in {"r_lock", "r_check", "r_wait", "r_sleeping"}

\* C31: with the writer thread enabled and both threads fairly scheduled, every threaded
\* render call returns, whatever render and set_use_thread calls came before.
C31_RenderReturns == RenderPending ~> (m_pc = "idle")

\* The second render slept on the condition, was woken by the writer and has returned
C31_Witness ==
    /\ m_pc = "idle" /\ use_thread /\ m_notified
    /\ handed_over = {1, 2}

\* C29: across threaded renders, synchronous renders and set_use_thread toggles, frames
\* reach stdout in the order of their render calls: no part of a frame is written after
\* a part of a frame that was rendered later.
C29_FramesInCallOrder ==
    LET log == FramesOf(stdout)
    IN  \A i, j \in 1 .. Len(log) : i < j => log[i][1] <= log[j][1]

-----------------------------------------------------------------------------
(* Shutdown *)

Written_direct(tok) == \E n \in 1 .. Len(stdout_direct) : stdout_direct[n] = tok
TimesWritten(tok) == Cardinality({ n \in 1 .. Len(stdout_direct) : stdout_direct[n] = tok })

\* plain mouse tracking, button-event and any-event tracking, SGR mouse mode
MouseModes == { 1000, 1002, 1003, 1006 }

\* the step of destroy that ends with the first show-cursor, and the step after it
IsDestroy == m_pc = "idle" /\ m_pc' = "d_show"
IsDestroyShowAgain == m_pc = "d_show" /\ m_pc' # "d_show"

\* C14: in whatever state destroy is called, it writes the restoration to stdout: mouse
\* tracking off if it was on, the main screen if the renderer uses the alternate screen,
\* cursor colour and cursor style reset, and show-cursor twice.
C14_DestroyRestoresTerminal ==
    [][ /\ IsDestroy =>
            /\ mouse_enabled =>
                   \A mode \in MouseModes : Written_direct(PrivateMode(mode, FALSE))'
            /\ use_alternate_screen => Written_direct(SWITCH_TO_MAIN_SCREEN)'
            /\ Written_direct(RESET_CURSOR_COLOR)'
            /\ Written_direct(DEFAULT_CURSOR_STYLE)'
            /\ Written_direct(SHOW_CURSOR)'
        /\ IsDestroyShowAgain => (TimesWritten(SHOW_CURSOR) = 2)'
      ]_vars

\* C15: a renderer that has been dropped, with or without a destroy before, has had the
\* restoration written: main screen, show cursor, default cursor style, mouse tracking off.
C15_DropRestoresTerminal ==
    m_pc = "dropped" =>
        /\ use_alternate_screen => Written_direct(SWITCH_TO_MAIN_SCREEN)
        /\ Written_direct(SHOW_CURSOR)
        /\ Written_direct(DEFAULT_CURSOR_STYLE)
        /\ ~mouse_enabled

\* C30: once destroy has started the restoration, no part of a rendered frame is written
\* to stdout: whatever the writer thread does, everything after the first restoration
\* bytes belongs to the restoration.
C30_NoFrameAfterRestoration ==
    \A i, j \in 1 .. Len(stdout) : (i < j /\ stdout[i][1] = 0) => stdout[j][1] = 0

-----------------------------------------------------------------------------
(* Cell grids *)

\* the last call on the grid was op
LastCall(op) == call # None /\ call[1].op = op
InGrid(x, y) == x < buffer[1].width /\ y < buffer[1].height
At(cells, x, y) == cells[y * buffer[1].width + x]
\* the last call stored a space with a translucent background over a glyph
SpaceOverGlyph ==
    /\ LastCall("set_cell_with_alpha_blending")
    /\ InGrid(call[1].args.x, call[1].args.y)
    /\ call[1].args.cell.char = DEFAULT_SPACE_CHAR
    /\ call[1].args.cell.bg[4] < ColorOne
    /\ At(call[1].before, call[1].args.x, call[1].args.y).char \notin { 0, DEFAULT_SPACE_CHAR }

\* C16: a space with a translucent background stored with blending over a glyph keeps the
\* cell's char and attributes, stores as bg the blend of the new bg over the old bg with
\* the new bg's alpha, and stores as fg the blend of the new bg over the old fg
C16_SpaceTintsGlyph ==
    SpaceOverGlyph =>
        LET dest == At(call[1].before, call[1].args.x, call[1].args.y)
            now == At(buffer[1].cells, call[1].args.x, call[1].args.y)
            bg == call[1].args.cell.bg
        IN  /\ now.char = dest.char
            /\ now.attributes = dest.attributes
            /\ now.bg = << blend_colors(bg, dest.bg)[1], blend_colors(bg, dest.bg)[2],
                           blend_colors(bg, dest.bg)[3], bg[4] >>
            /\ now.fg = blend_colors(bg, dest.fg)

\* a half red space was stored over a bold glyph: the glyph is still there, tinted
C16_Witness ==
    /\ SpaceOverGlyph
    /\ call[1].args.cell.bg = HALF_RED
    /\ call[1].args.cell.attributes = 0
    /\ At(call[1].before, call[1].args.x, call[1].args.y) = Cell(65, WHITE, BLUE, BOLD)
    /\ At(buffer[1].cells, call[1].args.x, call[1].args.y).char = 65
    /\ At(buffer[1].cells, call[1].args.x, call[1].args.y).fg # WHITE

\* the last call stored a cell of opaque colours with blending
OpaqueBlend ==
    /\ LastCall("set_cell_with_alpha_blending")
    /\ call[1].args.cell.fg[4] = ColorOne
    /\ call[1].args.cell.bg[4] = ColorOne

\* C17: a cell whose fg and bg both have alpha 1, stored with blending, leaves the grid as
\* set of the same cell at the same position would
C17_OpaqueBlendIsSet ==
    OpaqueBlend =>
        buffer[1].cells = set(call[1].before, buffer[1].width, buffer[1].height,
                              call[1].args.x, call[1].args.y, call[1].args.cell)

\* an opaque space was stored with blending over a glyph, and the glyph is gone
C17_Witness ==
    /\ OpaqueBlend
    /\ InGrid(call[1].args.x, call[1].args.y)
    /\ call[1].args.cell.char = DEFAULT_SPACE_CHAR
    /\ At(call[1].before, call[1].args.x, call[1].args.y).char = 65
    /\ At(buffer[1].cells, call[1].args.x, call[1].args.y) = call[1].args.cell

\* the last call named a position outside the grid
OutsideGrid ==
    /\ call # None
    /\ "x" \in DOMAIN call[1].args
    /\ ~InGrid(call[1].args.x, call[1].args.y)

\* C18: at a position with x >= width or y >= height, set_cell and
\* set_cell_with_alpha_blending return success, they and set change no cell of the grid,
\* and get returns absent
C18_OutsideGridIsNoOp ==
    OutsideGrid =>
        /\ buffer[1].cells = call[1].before
        /\ call[1].op \in { "set_cell", "set_cell_with_alpha_blending" } => IsOk(call[1].result)
        /\ call[1].op = "get" => call[1].result = None

\* set_cell was called past the last column of the first row, where the index
\* y * width + x is that of a cell of the second row, with a cell that is not already there
C18_Witness ==
    /\ OutsideGrid
    /\ call[1].op = "set_cell"
    /\ call[1].args.x = buffer[1].width
    /\ call[1].args.y = 0
    /\ call[1].args.cell # At(call[1].before, 0, 1)

\* the last two calls were clear(bg, None) with the same bg
ClearedTwice ==
    /\ LastCall("clear")
    /\ call[1].previous # None
    /\ call[1].previous[1].op = "clear"
    /\ call[1].args.char = None
    /\ call[1].previous[1].args = call[1].args

\* C19: after clear(bg, char) every cell is (char, or SPACE where none is given; opaque
\* white fg; bg; attributes 0) whatever the grid held, so a second clear(bg, None) right
\* after a first leaves the grid as the first left it
C19_ClearFillsEveryCell ==
    /\ LastCall("clear") =>
          \A i \in DOMAIN buffer[1].cells :
              buffer[1].cells[i] =
                  Cell(IF call[1].args.char = None THEN DEFAULT_SPACE_CHAR
                       ELSE call[1].args.char[1],
                       WHITE, call[1].args.bg, 0)
    /\ ClearedTwice => buffer[1].cells = call[1].before

\* a grid holding a bold glyph was cleared twice to half red with no char given
C19_Witness ==
    /\ ClearedTwice
    /\ call[1].args.bg = HALF_RED
    /\ \E i \in DOMAIN buffer[1].cells :
          call[1].previous[1].before[i] = Cell(65, WHITE, BLUE, BOLD)

\* the last call drew a grid that does not respect alpha
PlainBlit == LastCall("draw_frame_buffer") /\ ~call[1].args.source.respect_alpha

\* the source cell that lies over (d_x, d_y) of the destination in the last call: None
\* outside the part of the source rectangle that lies over the destination
SourceOver(d_x, d_y) ==
    LET a == call[1].args
        S == a.source
        left == IF a.src_x = None THEN 0 ELSE a.src_x[1]
        top == IF a.src_y = None THEN 0 ELSE a.src_y[1]
        wide == IF a.src_width = None THEN S.width ELSE a.src_width[1]
        high == IF a.src_height = None THEN S.height ELSE a.src_height[1]
    IN  IF /\ left < S.width /\ top < S.height
           /\ d_x >= a.dest_x /\ d_x - a.dest_x < wide /\ left + (d_x - a.dest_x) < S.width
           /\ d_y >= a.dest_y /\ d_y - a.dest_y < high /\ top + (d_y - a.dest_y) < S.height
        THEN Some(S.cells[(top + (d_y - a.dest_y)) * S.width + left + (d_x - a.dest_x)])
        ELSE None

\* C20: drawing a source grid with respect_alpha = false copies it cell for cell: every
\* destination cell under the clipped source rectangle equals the source cell over it in
\* char, fg, bg and attributes, and every other destination cell is unchanged
C20_PlainBlitCopies ==
    PlainBlit =>
        \A d_x \in 0 .. (buffer[1].width - 1), d_y \in 0 .. (buffer[1].height - 1) :
            At(buffer[1].cells, d_x, d_y) =
                IF SourceOver(d_x, d_y) = None THEN At(call[1].before, d_x, d_y)
                ELSE SourceOver(d_x, d_y)[1]

\* the square source was drawn one column to the left of the destination: its second
\* column is now the destination's first, and the destination's second column is as it was
C20_Witness ==
    /\ PlainBlit
    /\ call[1].args.dest_x = -1
    /\ call[1].args.dest_y = 0
    /\ call[1].args.source.width = 2
    /\ call[1].args.src_x = None
    /\ call[1].args.src_width = None
    /\ call[1].args.src_height = None
    /\ At(buffer[1].cells, 0, 0) = SourceSquare[2]
    /\ At(buffer[1].cells, 0, 1) = SourceSquare[4]
    /\ At(buffer[1].cells, 1, 0) = At(call[1].before, 1, 0)
    /\ At(call[1].before, 0, 0) # SourceSquare[2]

\* the last call resized the grid and succeeded
Resized == LastCall("resize") /\ IsOk(call[1].result)
\* the default cell of a freshly initialised grid
DefaultCell == Cell(DEFAULT_SPACE_CHAR, WHITE, BLACK, 0)

\* C21: resize keeps every cell in the overlap of the old and the new dimensions, and every
\* cell of the extended area holds the default cell of a fresh grid (SPACE, white fg,
\* opaque black bg, attributes 0)
C21_ResizeKeepsAndDefaults ==
    Resized =>
        \A x \in 0 .. (buffer[1].width - 1), y \in 0 .. (buffer[1].height - 1) :
            buffer[1].cells[y * buffer[1].width + x] =
                IF x < call[1].args.old_width /\ y < call[1].args.old_height
                THEN call[1].before[y * call[1].args.old_width + x]
                ELSE DefaultCell

Rgb(color) == << color[1], color[2], color[3] >>
\* (x, y) lies in the rectangle the last fill_rect was given
InRect(x, y) ==
    /\ x >= call[1].args.x /\ x < call[1].args.x + call[1].args.width
    /\ y >= call[1].args.y /\ y < call[1].args.y + call[1].args.height
\* the last call filled a rectangle with a translucent colour
TintedRect == LastCall("fill_rect") /\ call[1].args.bg[4] < ColorOne
\* "hello " was drawn in white on a fresh 6x1 grid and the whole grid then filled with
\* half-transparent red
HelloTinted ==
    /\ TintedRect
    /\ call[1].args = [x |-> 0, y |-> 0, width |-> 6, height |-> 1, bg |-> HALF_RED]
    /\ call[1].previous # None
    /\ call[1].previous[1].op = "draw_text"
    /\ call[1].previous[1].args =
          [ text |-> << 104, 101, 108, 108, 111, 32 >>, x |-> 0, y |-> 0, fg |-> WHITE,
            bg |-> None, attributes |-> 0 ]

\* C22 as stated: after the fill all six cells hold their original character, the blend of
\* red over black as bg and the blend of red over white as fg
C22_HelloTintedAllSix ==
    HelloTinted =>
        \A i \in 0 .. 5 :
            /\ buffer[1].cells[i].char = call[1].before[i].char
            /\ Rgb(buffer[1].cells[i].bg) = Rgb(blend_colors(HALF_RED, BLACK))
            /\ buffer[1].cells[i].fg = blend_colors(HALF_RED, WHITE)

\* C22: a fill_rect with a translucent colour leaves every cell of the rectangle with its
\* character and with the colour blended over its old bg; a cell that held a glyph gets
\* the colour blended over its old fg, a cell that held a space or 0 gets opaque white fg
\* (so of "hello " the five letters are tinted and the trailing space keeps white)
C22_TintKeepsGlyphs ==
    TintedRect =>
        \A x \in 0 .. (buffer[1].width - 1), y \in 0 .. (buffer[1].height - 1) :
            IF InRect(x, y)
            THEN /\ At(buffer[1].cells, x, y).char =
                        IF At(call[1].before, x, y).char = 0 THEN DEFAULT_SPACE_CHAR
                        ELSE At(call[1].before, x, y).char
                 /\ Rgb(At(buffer[1].cells, x, y).bg) =
                        Rgb(blend_colors(call[1].args.bg, At(call[1].before, x, y).bg))
                 /\ At(buffer[1].cells, x, y).fg =
                        IF At(call[1].before, x, y).char \in { 0, DEFAULT_SPACE_CHAR }
                        THEN WHITE
                        ELSE blend_colors(call[1].args.bg, At(call[1].before, x, y).fg)
            ELSE At(buffer[1].cells, x, y) = At(call[1].before, x, y)

\* "hello " tinted: the h is still there with a tinted fg, the sixth cell is a space
\* with white fg
C22_Witness ==
    /\ HelloTinted
    /\ buffer[1].cells[0].char = 104
    /\ buffer[1].cells[0].fg = blend_colors(HALF_RED, WHITE)
    /\ buffer[1].cells[0].fg # WHITE
    /\ buffer[1].cells[5].char = DEFAULT_SPACE_CHAR
    /\ buffer[1].cells[5].fg = WHITE

\* the part of the grid the box of the last draw_box covers: columns BoxLeft .. BoxRight,
\* rows BoxTopRow .. BoxBottomRow
BoxLeft == Max(0, call[1].args.x)
BoxRight == Min(buffer[1].width - 1, call[1].args.x + call[1].args.width - 1)
BoxTopRow == Max(0, call[1].args.y)
BoxBottomRow == Min(buffer[1].height - 1, call[1].args.y + call[1].args.height - 1)
\* the last call drew a box of which some cell lies on the grid
BoxDrawn == LastCall("draw_box") /\ BoxLeft <= BoxRight /\ BoxTopRow <= BoxBottomRow
\* the box's first row is on the grid and its top border is enabled
TopBorderDrawn == BoxDrawn /\ call[1].args.border_sides.top /\ call[1].args.y >= 0
TitleLength == IF call[1].args.title = None THEN 0 ELSE Len(call[1].args.title[1])
\* the condition under which the title is drawn
TitleDue == TopBorderDrawn /\ call[1].args.title # None
            /\ call[1].args.width >= TitleLength + 4
\* the column offset of the title from the box's left edge
TitleOffset ==
    CASE call[1].args.title_alignment = 1 -> Max(2, (call[1].args.width - TitleLength) \div 2)
      [] call[1].args.title_alignment = 2 -> call[1].args.width - 2 - TitleLength
      [] OTHER -> 2
\* the first row of the box holds the title in columns first .. first + TitleLength - 1,
\* with the border colour as fg and the box background as bg where colours is set, and a
\* corner or horizontal glyph in every other column of the box (in a box one row high the
\* corners are those of the bottom border)
TopRowHolds(first, colours) ==
    \A column \in BoxLeft .. BoxRight :
        LET cell == At(buffer[1].cells, column, BoxTopRow)
        IN  IF TitleDue /\ column >= first /\ column < first + TitleLength
            THEN /\ cell.char = call[1].args.title[1][column - first + 1]
                 /\ colours => /\ cell.fg = call[1].args.border_color
                               /\ cell.bg = call[1].args.background_color
            ELSE cell.char \in { call[1].args.border_chars[k] :
                                     k \in { TopLeft, TopRight, BottomLeft, BottomRight,
                                             Horizontal } }

\* C23 as stated: the title is drawn iff a title is supplied, the top border is enabled and
\* on-screen, and width >= title_length + 4; it starts at x + 2, x + max(2, (width -
\* title_length) / 2) or x + width - 2 - title_length by alignment; its cells have the
\* border colour as fg and the box background as bg; all other cells of the top row keep
\* their corner and horizontal glyphs
C23_TitleAtStatedColumn ==
    TopBorderDrawn => TopRowHolds(call[1].args.x + TitleOffset, TRUE)

\* C23: as stated, except that the title starts at start_x + 2, start_x + max(2, (width -
\* title_length) / 2) or start_x + width - 2 - title_length, where start_x = max(0, x) is
\* the box's first column on the grid, moved left as far as needed to end before the box's
\* last column on the grid but never left of start_x + 2; and that the title cells have
\* exactly the border colour and the box background where the box background is opaque
C23_TitleWithinBox ==
    TopBorderDrawn =>
        TopRowHolds(Max(BoxLeft + 2, Min(BoxLeft + TitleOffset, BoxRight - TitleLength)),
                    call[1].args.background_color[4] = ColorOne)

\* a 20x5 box titled "Hi", centred, on the 20x5 grid: corners in columns 0 and 19,
\* horizontal glyphs in columns 1 .. 8 and 11 .. 18, the title in columns 9 and 10
C23_Witness ==
    /\ TitleDue
    /\ call[1].args.title = Some(<< 72, 105 >>)
    /\ call[1].args.title_alignment = 1
    /\ call[1].args.x = 0 /\ call[1].args.width = 20
    /\ call[1].args.border_color = BLUE /\ call[1].args.background_color = YELLOW
    /\ At(buffer[1].cells, 0, 0).char = STANDARD_CHARS[TopLeft]
    /\ At(buffer[1].cells, 19, 0).char = STANDARD_CHARS[TopRight]
    /\ \A column \in (1 .. 8) \cup (11 .. 18) :
          At(buffer[1].cells, column, 0).char = STANDARD_CHARS[Horizontal]
    /\ At(buffer[1].cells, 9, 0) = Cell(72, BLUE, YELLOW, 0)
    /\ At(buffer[1].cells, 10, 0) = Cell(105, BLUE, YELLOW, 0)

\* the last call drew a box with all four sides, filled with an opaque colour
FilledBox ==
    /\ BoxDrawn
    /\ call[1].args.border_sides = [top |-> TRUE, right |-> TRUE, bottom |-> TRUE, left |-> TRUE]
    /\ call[1].args.should_fill
    /\ call[1].args.background_color[4] = ColorOne
\* (column, row) lies on the first or last row or column of the box of the last call
OnBorder(column, row) ==
    \/ row = call[1].args.y \/ row = call[1].args.y + call[1].args.height - 1
    \/ column = call[1].args.x \/ column = call[1].args.x + call[1].args.width - 1
\* every cell of the box that lies on the grid has the box background as bg, and every
\* border cell has the border colour as fg where fg_too is set
BoxCellsColoured(fg_too) ==
    \A column \in BoxLeft .. BoxRight, row \in BoxTopRow .. BoxBottomRow :
        /\ At(buffer[1].cells, column, row).bg = call[1].args.background_color
        /\ OnBorder(column, row) /\ fg_too =>
              At(buffer[1].cells, column, row).fg = call[1].args.border_color

Sampled == LastCall("draw_super_sample_buffer")
\* the cells the last draw_super_sample_buffer stored: those from (pos_x, pos_y) on
SampledCells ==
    { c \in (0 .. (buffer[1].width - 1)) \X (0 .. (buffer[1].height - 1)) :
          c[1] >= call[1].args.pos_x /\ c[2] >= call[1].args.pos_y }
\* the four pixels TL, TR, BL, BR under the cell (x, y) in the last call
PixelsUnder(x, y) ==
    CellPixels(x, y, call[1].args.pos_x, call[1].args.pos_y, call[1].args.pixel_data,
               call[1].args.len, call[1].args.format, call[1].args.aligned_bytes_per_row)
PURE_RED == << ColorOne, 0, 0, ColorOne >>
\* four pixels (A, B, B, A)
Diagonal(pixels) == pixels[1] = pixels[4] /\ pixels[2] = pixels[3]
\* what C24 says of four pixels (A, B, B, A) and of the cell at (x, y) they were drawn to:
\* mask 1001 where A has the lower or the same luminance, mask 0110 otherwise, the
\* glyph of the mask, fg the darker and bg the lighter colour; and the cell holds that
\* glyph and those colours where both are opaque
DiagonalEncoded(pixels, x, y) ==
    LET a_dark == luminance(pixels[1]) <= luminance(pixels[2])
        mask == IF a_dark THEN 9 ELSE 6
        dark == IF a_dark THEN pixels[1] ELSE pixels[2]
        light == IF a_dark THEN pixels[2] ELSE pixels[1]
    IN  /\ quadrant_bits(pixels) = mask
        /\ render_quadrant_block(pixels) =
              [ char |-> QUADRANT_CHARS[mask + 1], fg |-> dark, bg |-> light ]
        /\ dark[4] = ColorOne /\ light[4] = ColorOne =>
              At(buffer[1].cells, x, y) = Cell(QUADRANT_CHARS[mask + 1], dark, light, 0)

\* C24 as stated: for four pixels (A, B, B, A) in TL, TR, BL, BR order with A and B distinct
\* colours the quadrant encoder returns mask 1001 if A is the darker (lower or equal
\* luminance) colour and 0110 otherwise, the glyph QUADRANT_CHARS[mask], fg = the darker and
\* bg = the lighter colour, also for each cell of a checker drawn by draw_super_sample_buffer
C24_DiagonalOfDistinctColours ==
    Sampled =>
        \A c \in SampledCells :
            Diagonal(PixelsUnder(c[1], c[2]))
            /\ PixelsUnder(c[1], c[2])[1] # PixelsUnder(c[1], c[2])[2]
            => DiagonalEncoded(PixelsUnder(c[1], c[2]), c[1], c[2])

\* C24: as stated, for colours A and B that differ in red, green or blue
C24_DiagonalOfDistinctRgb ==
    Sampled =>
        \A c \in SampledCells :
            Diagonal(PixelsUnder(c[1], c[2]))
            /\ Rgb(PixelsUnder(c[1], c[2])[1]) # Rgb(PixelsUnder(c[1], c[2])[2])
            => DiagonalEncoded(PixelsUnder(c[1], c[2]), c[1], c[2])

\* a red and blue checker of 4x2 pixels, the right block the mirror image of the left, was
\* drawn to the first row: both cells show blue on red, the left one the glyph of mask 0110
\* and the right one that of mask 1001
C24_Witness ==
    /\ Sampled
    /\ call[1].args.pos_x = 0 /\ call[1].args.pos_y = 0
    /\ call[1].args.aligned_bytes_per_row = 16
    /\ PixelsUnder(0, 0) = << PURE_RED, BLUE, BLUE, PURE_RED >>
    /\ PixelsUnder(1, 0) = << BLUE, PURE_RED, PURE_RED, BLUE >>
    /\ At(buffer[1].cells, 0, 0) = Cell(QUADRANT_CHARS[6 + 1], BLUE, PURE_RED, 0)
    /\ At(buffer[1].cells, 1, 0) = Cell(QUADRANT_CHARS[9 + 1], BLUE, PURE_RED, 0)

\* four pixels of one colour
Uniform(pixels) == pixels[2] = pixels[1] /\ pixels[3] = pixels[1] /\ pixels[4] = pixels[1]

\* C25: for four identical pixels of colour c the quadrant encoder computes mask 15 and
\* returns char = FULL BLOCK (0x2588) with fg = c and bg = c
C25_UniformIsFullBlock ==
    Sampled =>
        \A c \in SampledCells :
            Uniform(PixelsUnder(c[1], c[2])) =>
                /\ quadrant_bits(PixelsUnder(c[1], c[2])) = 15
                /\ render_quadrant_block(PixelsUnder(c[1], c[2])) =
                      [ char |-> 9608, fg |-> PixelsUnder(c[1], c[2])[1],
                        bg |-> PixelsUnder(c[1], c[2])[1] ]

\* an image of green pixels only was drawn: the first cell is a green full block on green
C25_Witness ==
    /\ Sampled
    /\ call[1].args.pos_x = 0 /\ call[1].args.pos_y = 0
    /\ Uniform(PixelsUnder(0, 0))
    /\ PixelsUnder(0, 0)[1] = << 0, ColorOne, 0, ColorOne >>
    /\ At(buffer[1].cells, 0, 0) = Cell(9608, << 0, ColorOne, 0, ColorOne >>,
                                        << 0, ColorOne, 0, ColorOne >>, 0)

\* the 2x2 pixel block of the cell (x, y) lies past the end of the pixel data of the last
\* draw_super_sample_buffer: none of its four pixels has its four bytes within len
BlockOutside(x, y) ==
    LET render_x == (x - call[1].args.pos_x) * 2
        render_y == (y - call[1].args.pos_y) * 2
        tl_index == render_y * call[1].args.aligned_bytes_per_row + render_x * 4
        bl_index == (render_y + 1) * call[1].args.aligned_bytes_per_row + render_x * 4
    IN  \A idx \in { tl_index, tl_index + 4, bl_index, bl_index + 4 } :
            idx + 3 >= call[1].args.len

\* C37: draw_super_sample_buffer leaves unchanged every cell to the left of pos_x or above
\* pos_y and every cell whose 2x2 pixel block lies outside the pixel data.
C37_OnlyBackedCellsChange ==
    Sampled =>
        \A x \in 0 .. (buffer[1].width - 1), y \in 0 .. (buffer[1].height - 1) :
            (x < call[1].args.pos_x \/ y < call[1].args.pos_y \/ BlockOutside(x, y))
                => At(buffer[1].cells, x, y) = At(call[1].before, x, y)

\* the quadrants TL = 1, TR = 2, BL = 3, BR = 4 that the glyph of a code point of the
\* Unicode block elements fills with the foreground colour; SPACE fills none
GlyphQuadrants(char) ==
    CASE char = 32 -> { }
      [] char = 9600 -> { 1, 2 }
      [] char = 9604 -> { 3, 4 }
      [] char = 9608 -> { 1, 2, 3, 4 }
      [] char = 9612 -> { 1, 3 }
      [] char = 9616 -> { 2, 4 }
      [] char = 9622 -> { 3 }
      [] char = 9623 -> { 4 }
      [] char = 9624 -> { 1 }
      [] char = 9625 -> { 1, 3, 4 }
      [] char = 9626 -> { 1, 4 }
      [] char = 9627 -> { 1, 2, 3 }
      [] char = 9628 -> { 1, 2, 4 }
      [] char = 9629 -> { 2 }
      [] char = 9630 -> { 2, 3 }
      [] char = 9631 -> { 2, 3, 4 }

\* the quadrants whose bit, TL = 8, TR = 4, BL = 2, BR = 1, is set in mask
MaskQuadrants(mask) == { i \in 1 .. 4 : (mask \div << 8, 4, 2, 1 >>[i]) % 2 = 1 }

\* dark and light are a most distant pair of the pixels, the dark one of no greater
\* luminance
MostDistantPair(pixels, dark, light) ==
    /\ \E i, j \in 1 .. 4 : i # j /\ pixels[i] = dark /\ pixels[j] = light
    /\ \A i, j \in 1 .. 4 :
            color_distance(pixels[i], pixels[j]) <= color_distance(dark, light)
    /\ luminance(dark) <= luminance(light)

\* C38: for every four input pixels, with (dark, light) the luminance-ordered maximally
\* distant pixel pair, the bit of a quadrant is set in the mask iff its pixel is at most as
\* far from dark as from light, the glyph QUADRANT_CHARS[mask] covers exactly the
\* quadrants whose bit is set, and for mixed masks fg = dark and bg = light.
C38_QuadrantsShowNearestColour ==
    /\ \A mask \in 0 .. 15 : GlyphQuadrants(QUADRANT_CHARS[mask + 1]) = MaskQuadrants(mask)
    /\ Sampled =>
          \A c \in SampledCells :
              /\ MostDistantPair(PixelsUnder(c[1], c[2]),
                                 ChosenColors(PixelsUnder(c[1], c[2]))[1],
                                 ChosenColors(PixelsUnder(c[1], c[2]))[2])
              /\ MaskQuadrants(quadrant_bits(PixelsUnder(c[1], c[2]))) =
                    { i \in 1 .. 4 :
                        color_distance(PixelsUnder(c[1], c[2])[i],
                                       ChosenColors(PixelsUnder(c[1], c[2]))[1])
                          <= color_distance(PixelsUnder(c[1], c[2])[i],
                                            ChosenColors(PixelsUnder(c[1], c[2]))[2]) }
              /\ GlyphQuadrants(render_quadrant_block(PixelsUnder(c[1], c[2])).char) =
                    MaskQuadrants(quadrant_bits(PixelsUnder(c[1], c[2])))
              /\ quadrant_bits(PixelsUnder(c[1], c[2])) \notin { 0, 15 } =>
                    /\ render_quadrant_block(PixelsUnder(c[1], c[2])).fg =
                          ChosenColors(PixelsUnder(c[1], c[2]))[1]
                    /\ render_quadrant_block(PixelsUnder(c[1], c[2])).bg =
                          ChosenColors(PixelsUnder(c[1], c[2]))[2]

\* an image with a blue pixel in the top left of a block of red pixels was drawn: the
\* first cell is the upper left quadrant, blue on red
C38_Witness ==
    /\ Sampled
    /\ call[1].args.pos_x = 0 /\ call[1].args.pos_y = 0
    /\ PixelsUnder(0, 0) = << << 0, 0, ColorOne, ColorOne >>, << ColorOne, 0, 0, ColorOne >>,
                              << ColorOne, 0, 0, ColorOne >>, << ColorOne, 0, 0, ColorOne >> >>
    /\ quadrant_bits(PixelsUnder(0, 0)) = 8
    /\ At(buffer[1].cells, 0, 0) = Cell(9624, << 0, 0, ColorOne, ColorOne >>,
                                        << ColorOne, 0, 0, ColorOne >>, 0)

\* C39: for every four input pixels the quadrant mask is never 0: the pixel chosen as the
\* dark colour is always classified as dark, so the result (SPACE, dark, average) of mask
\* 0 is never produced.
C39_MaskNeverZero ==
    Sampled =>
        \A c \in SampledCells :
            /\ quadrant_bits(PixelsUnder(c[1], c[2])) # 0
            /\ \E i \in MaskQuadrants(quadrant_bits(PixelsUnder(c[1], c[2]))) :
                    PixelsUnder(c[1], c[2])[i] = ChosenColors(PixelsUnder(c[1], c[2]))[1]
            /\ render_quadrant_block(PixelsUnder(c[1], c[2])).char # 32

\* an image of black and white columns was drawn: the first cell holds a left half block,
\* its two black pixels classified as dark
C39_Witness ==
    /\ Sampled
    /\ call[1].args.pos_x = 0 /\ call[1].args.pos_y = 0
    /\ PixelsUnder(0, 0) = << << 0, 0, 0, ColorOne >>, << ColorOne, ColorOne, ColorOne, ColorOne >>,
                              << 0, 0, 0, ColorOne >>, << ColorOne, ColorOne, ColorOne, ColorOne >> >>
    /\ quadrant_bits(PixelsUnder(0, 0)) = 10
    /\ At(buffer[1].cells, 0, 0).char = 9612

Packed == LastCall("draw_packed_buffer")

\* the records of the last draw_packed_buffer that map inside the grid, as
\* << cell_x, cell_y, bg, fg, char >>
PackedRecords ==
    { << call[1].args.pos_x + (i % call[1].args.terminal_width_cells),
         call[1].args.pos_y + (i \div call[1].args.terminal_width_cells),
         call[1].args.data[i + 1][1], call[1].args.data[i + 1][2],
         call[1].args.data[i + 1][3] >> :
      i \in { k \in 0 .. ((call[1].args.data_len \div 48) - 1) :
                /\ call[1].args.pos_x + (k % call[1].args.terminal_width_cells)
                     < Min(call[1].args.terminal_width_cells, buffer[1].width)
                /\ call[1].args.pos_y + (k \div call[1].args.terminal_width_cells)
                     < Min(call[1].args.terminal_height_cells, buffer[1].height) } }

\* C40: draw_packed_buffer stores, for every 48-byte record that maps inside the grid,
\* SPACE for a code point that is 0 or above 0x10FFFF, FULL BLOCK (0x2588) for a code
\* point below 0x2580 that is not within 32 < c <= 126, and every other code point
\* unchanged.
C40_SanitisedAsStated ==
    Packed =>
        \A r \in PackedRecords :
            At(buffer[1].cells, r[1], r[2]).char =
                IF r[5] = 0 \/ r[5] > 1114111 THEN 32
                ELSE IF r[5] < 9600 /\ ~(32 < r[5] /\ r[5] <= 126) THEN 9608
                ELSE r[5]

\* C40, amended: for every 48-byte record that maps inside the grid, draw_packed_buffer
\* hands to set_cell_with_alpha_blending SPACE for a code point that is 0 or above
\* 0x10FFFF, FULL BLOCK (0x2588) for a code point below 0x2580 that is not within
\* 32 <= c <= 126, and every other code point unchanged; the cell holds that code point
\* afterwards, unless it is SPACE, a colour of the record is translucent and the cell held
\* a glyph other than NUL and SPACE, which it then keeps.
C40_SanitisedThenBlended ==
    Packed =>
        \A r \in PackedRecords :
            At(buffer[1].cells, r[1], r[2]).char =
                IF /\ r[5] \in { 0, 32 } \/ r[5] > 1114111
                   /\ r[3][4] < ColorOne \/ r[4][4] < ColorOne
                   /\ At(call[1].before, r[1], r[2]).char \notin { 0, 32 }
                THEN At(call[1].before, r[1], r[2]).char
                ELSE IF r[5] = 0 \/ r[5] > 1114111 THEN 32
                ELSE IF r[5] < 9600 /\ ~(32 <= r[5] /\ r[5] <= 126) THEN 9608
                ELSE r[5]

\* records that begin with NUL were drawn in opaque blue over a grid of 'A': the first
\* cell holds a SPACE, the second the 'B' of the second record
C40_Witness ==
    /\ Packed
    /\ call[1].args.pos_x = 0 /\ call[1].args.pos_y = 0
    /\ call[1].args.terminal_width_cells = 2 /\ call[1].args.terminal_height_cells = 2
    /\ call[1].args.data[1] = << BLUE, WHITE, 0 >>
    /\ At(call[1].before, 0, 0).char = 65
    /\ At(buffer[1].cells, 0, 0) = Cell(32, WHITE, BLUE, 0)
    /\ At(buffer[1].cells, 1, 0).char = 66

====
